---- MODULE Spec2Model ----
(***************************************************************************)
(* A model of the sling request builder (sling.go): the Sling struct, its  *)
(* copy operations New/Safely/safely, the fluent setters and Request().    *)
(*                                                                         *)
(* Go values are modelled as follows.                                      *)
(*  - A *Sling is an index into the sequence `slings`.                     *)
(*  - A slice is a record [arr, len]: `arr` is the index of its backing    *)
(*    array in `heap` (0 for the nil slice), `len` its length; the         *)
(*    capacity is the length of the backing array.  Two slices with the    *)
(*    same `arr` share their cells, as in Go.                              *)
(*  - A string that the code parses (a URL, a header name) is the sequence *)
(*    of its lexemes, so that parsing and formatting are computed.         *)
(***************************************************************************)
EXTENDS Integers, Sequences, FiniteSets, TLC

----------------------------------------------------------------------------
(* Bounds of the model. *)

\* Headers under derivation: instances held, longest value list.
MaxHeaderSlings == 2
MaxLen == 4
\* Query structs under derivation: instances held, longest list.
MaxQuerySlings == 2
MaxQueryLen == 2
\* Derivation of method, URL and bodies: instances held, lexemes of a URL.
MaxDeriveSlings == 2
MaxUrlLen == 9
\* Copying a configuration: instances held, elements of a list.
MaxCopySlings == 2
MaxCopyLen == 1
\* Safe mode: instances held (header lists have at most MaxLen values).
MaxSafeSlings == 2
\* Bodies: instances held.
MaxBodySlings == 2
\* Paths: instances held (a URL has at most MaxUrlLen lexemes).
MaxPathSlings == 1
\* Verb setters: instances held.
MaxVerbSlings == 1
\* Query merge: instances held, and query structs in a list.
MaxMergeSlings == 1
MaxMergeLen == 2
\* Request building: instances held.
MaxBuildSlings == 1
\* Sending: instances held.
MaxDoSlings == 1
\* Receive: instances held.
MaxReceiveSlings == 1

----------------------------------------------------------------------------
(* Program constants. *)

HEAD == "HEAD"
GET == "GET"
POST == "POST"
PUT == "PUT"
PATCH == "PATCH"
DELETE == "DELETE"
contentType == <<"C", "o", "n", "t", "e", "n", "t", "-", "T", "y", "p", "e">>
jsonContentType == "application/json"
formContentType == "application/x-www-form-urlencoded"

\* interface{}(nil), (*http.Client)(nil)
Nil == "nil"
\* http.DefaultClient
DefaultClient == "http.DefaultClient"

----------------------------------------------------------------------------
(* Strings as sequences of lexemes. *)

RECURSIVE Index(_, _)
\* strings.Index(s, c): the first position of lexeme c in s, 0 if absent.
Index(s, c) ==
  IF s = <<>> THEN 0
  ELSE IF Head(s) = c THEN 1
  ELSE LET r == Index(Tail(s), c) IN IF r = 0 THEN 0 ELSE r + 1

RECURSIVE LastIndex(_, _)
\* strings.LastIndex(s, c): the last position of lexeme c in s, 0 if absent.
LastIndex(s, c) ==
  IF s = <<>> THEN 0
  ELSE IF s[Len(s)] = c THEN Len(s)
  ELSE LastIndex(SubSeq(s, 1, Len(s) - 1), c)

Contains(s, c) == Index(s, c) # 0

Count(s, c) == Cardinality({i \in 1..Len(s) : s[i] = c})

HasPrefix(s, p) == Len(s) >= Len(p) /\ SubSeq(s, 1, Len(p)) = p

\* s[i:] and s[:i] with Go's 0-based bounds.
From(s, i) == SubSeq(s, i + 1, Len(s))
Upto(s, i) == SubSeq(s, 1, i)

----------------------------------------------------------------------------
(* net/url as used by Path and Request: url.Parse, URL.ResolveReference,   *)
(* URL.String.  A URL string is a sequence of lexemes: the delimiters      *)
(* ":", "/", "?", "&", "=", the dot segments "." and "..", the malformed   *)
(* escape "%zz", and words (a run of letters, digits and dots starting     *)
(* with a letter).  Fragments and userinfo are not part of the alphabet.   *)

BadEscape == "%zz"
Words == {"http", "HTTP", "a.io", "b.io", "foo", "bar", "baz", "k", "l", "v",
          "w"}

\* strings.ToLower on a scheme.
ToLower(w) == IF w = "HTTP" THEN "http" ELSE w

NoURL == [Scheme |-> "", Opaque |-> <<>>, Host |-> <<>>, Path |-> <<>>,
          RawQuery |-> <<>>, ForceQuery |-> FALSE, OmitHost |-> FALSE]

\* url.getScheme: [err, scheme, rest].
getScheme(raw) ==
  IF raw = <<>> THEN [err |-> FALSE, scheme |-> "", rest |-> raw]
  ELSE IF raw[1] = ":" THEN [err |-> TRUE, scheme |-> "", rest |-> raw]
  ELSE IF raw[1] \in Words /\ Len(raw) >= 2 /\ raw[2] = ":"
    THEN [err |-> FALSE, scheme |-> raw[1], rest |-> From(raw, 2)]
  ELSE [err |-> FALSE, scheme |-> "", rest |-> raw]

\* url.parseAuthority / parseHost, without userinfo: the host may not hold a
\* malformed escape, and a port (after the last colon) must be digits, which
\* no lexeme is.
hostErr(authority) ==
  \/ Contains(authority, BadEscape)
  \/ /\ Contains(authority, ":")
     /\ LastIndex(authority, ":") < Len(authority)

\* url.parse(rawURL, viaRequest = false), after the fragment was cut off:
\* [err, url].
Parse(raw) ==
  LET sch == getScheme(raw)
      forceQ == sch.rest # <<>> /\ sch.rest[Len(sch.rest)] = "?"
                /\ Count(sch.rest, "?") = 1
      q == Index(sch.rest, "?")
      rest0 == IF forceQ THEN Upto(sch.rest, Len(sch.rest) - 1)
               ELSE IF q = 0 THEN sch.rest ELSE Upto(sch.rest, q - 1)
      rawQuery == IF forceQ \/ q = 0 THEN <<>> ELSE From(sch.rest, q)
      scheme == ToLower(sch.scheme)
      rooted == HasPrefix(rest0, <<"/">>)
      seg1 == IF Contains(rest0, "/") THEN Upto(rest0, Index(rest0, "/") - 1)
              ELSE rest0
      hasAuth == HasPrefix(rest0, <<"/", "/">>)
                 /\ (scheme # "" \/ ~HasPrefix(rest0, <<"/", "/", "/">>))
      auth0 == From(rest0, 2)
      cut == Index(auth0, "/")
      authority == IF cut = 0 THEN auth0 ELSE Upto(auth0, cut - 1)
      path == IF ~hasAuth THEN rest0
              ELSE IF cut = 0 THEN <<>> ELSE From(auth0, cut - 1)
  IN IF sch.err THEN [err |-> TRUE, url |-> NoURL]
     ELSE IF ~rooted /\ scheme # ""
       THEN [err |-> FALSE,
             url |-> [NoURL EXCEPT !.Scheme = scheme, !.Opaque = rest0,
                                   !.RawQuery = rawQuery,
                                   !.ForceQuery = forceQ]]
     ELSE IF ~rooted /\ Contains(seg1, ":") THEN [err |-> TRUE, url |-> NoURL]
     ELSE IF hasAuth /\ hostErr(authority) THEN [err |-> TRUE, url |-> NoURL]
     ELSE IF Contains(path, BadEscape) THEN [err |-> TRUE, url |-> NoURL]
     ELSE [err |-> FALSE,
           url |-> [Scheme |-> scheme, Opaque |-> <<>>,
                    Host |-> IF hasAuth THEN authority ELSE <<>>,
                    Path |-> path, RawQuery |-> rawQuery,
                    ForceQuery |-> forceQ,
                    OmitHost |-> ~hasAuth /\ scheme # "" /\ rooted]]

RECURSIVE Split(_)
\* strings.Split(s, "/"): the segments of s, as a sequence of sequences.
Split(s) ==
  LET i == Index(s, "/")
  IN IF i = 0 THEN <<s>> ELSE <<Upto(s, i - 1)>> \o Split(From(s, i))

RECURSIVE resolveLoop(_, _, _)
\* The loop of url.resolvePath over the "/"-separated elements `segs`: `dst`
\* is the string built so far (it starts with "/"), `first` the flag of the
\* same name.
resolveLoop(dst, first, segs) ==
  IF segs = <<>> THEN dst
  ELSE LET elem == Head(segs)
           str == Tail(dst)
           index == LastIndex(str, "/")
       IN IF elem = <<".">> THEN resolveLoop(dst, FALSE, Tail(segs))
          ELSE IF elem = <<"..">>
            THEN IF index = 0 THEN resolveLoop(<<"/">>, TRUE, Tail(segs))
                 ELSE resolveLoop(<<"/">> \o Upto(str, index - 1), first,
                                  Tail(segs))
          ELSE resolveLoop(dst \o (IF first THEN <<>> ELSE <<"/">>) \o elem,
                           FALSE, Tail(segs))

\* url.resolvePath(base, ref)
resolvePath(base, ref) ==
  LET full == IF ref = <<>> THEN base
              ELSE IF ref[1] # "/"
                THEN Upto(base, LastIndex(base, "/")) \o ref
              ELSE ref
      segs == Split(full)
      elem == segs[Len(segs)]
      dst == resolveLoop(<<"/">>, TRUE, segs)
      r == dst \o (IF elem \in {<<".">>, <<"..">>} THEN <<"/">> ELSE <<>>)
  IN IF full = <<>> THEN <<>>
     ELSE IF Len(r) > 1 /\ r[2] = "/" THEN Tail(r) ELSE r

\* URL.ResolveReference(ref), for URLs without userinfo and fragment.
ResolveReference(u, ref) ==
  LET url == IF ref.Scheme = "" THEN [ref EXCEPT !.Scheme = u.Scheme] ELSE ref
  IN IF ref.Scheme # "" \/ ref.Host # <<>>
       THEN [url EXCEPT !.Path = resolvePath(ref.Path, <<>>)]
     ELSE IF ref.Opaque # <<>>
       THEN [url EXCEPT !.Host = <<>>, !.Path = <<>>]
     ELSE LET url2 == IF ref.Path = <<>> /\ ~ref.ForceQuery
                         /\ ref.RawQuery = <<>>
                      THEN [url EXCEPT !.RawQuery = u.RawQuery] ELSE url
          IN IF ref.Path = <<>> /\ u.Opaque # <<>>
               THEN [url2 EXCEPT !.Opaque = u.Opaque, !.Host = <<>>,
                                 !.Path = <<>>]
             ELSE [url2 EXCEPT !.Host = u.Host,
                               !.Path = resolvePath(u.Path, ref.Path)]

\* URL.String()
String(u) ==
  LET seg1 == IF Contains(u.Path, "/") THEN Upto(u.Path, Index(u.Path, "/") - 1)
              ELSE u.Path
      schemePart == IF u.Scheme # "" THEN <<u.Scheme, ":">> ELSE <<>>
      hostPart ==
        IF u.Scheme # "" \/ u.Host # <<>>
        THEN (IF u.OmitHost /\ u.Host = <<>> THEN <<>>
              ELSE IF u.Host # <<>> \/ u.Path # <<>> THEN <<"/", "/">>
              ELSE <<>>) \o u.Host
        ELSE <<>>
      slash == IF u.Path # <<>> /\ u.Path[1] # "/" /\ u.Host # <<>>
               THEN <<"/">> ELSE <<>>
      dotSlash == IF schemePart \o hostPart \o slash = <<>>
                     /\ Contains(seg1, ":")
                  THEN <<".", "/">> ELSE <<>>
      body == IF u.Opaque # <<>> THEN u.Opaque
              ELSE hostPart \o slash \o dotSlash \o u.Path
      query == IF u.ForceQuery \/ u.RawQuery # <<>>
               THEN <<"?">> \o u.RawQuery ELSE <<>>
  IN schemePart \o body \o query

----------------------------------------------------------------------------
(* net/http.Header keys. A header name is the sequence of its characters.  *)

lowerChars == <<"c", "o", "n", "t", "e", "y", "p", "x", "k">>
upperChars == <<"C", "O", "N", "T", "E", "Y", "P", "X", "K">>

toUpper(c) == IF Contains(lowerChars, c) THEN upperChars[Index(lowerChars, c)]
              ELSE c
toLower(c) == IF Contains(upperChars, c) THEN lowerChars[Index(upperChars, c)]
              ELSE c

RECURSIVE canonLoop(_, _)
\* The loop of textproto.CanonicalMIMEHeaderKey: a letter is upper-cased at
\* the start and after a hyphen, lower-cased elsewhere.
canonLoop(key, upper) ==
  IF key = <<>> THEN <<>>
  ELSE <<IF upper THEN toUpper(Head(key)) ELSE toLower(Head(key))>>
       \o canonLoop(Tail(key), Head(key) = "-")

CanonicalHeaderKey(key) == canonLoop(key, TRUE)

\* The header names of the model, in the order the collector scans them.
KeyOrder == <<contentType, <<"X", "-", "K">> >>

----------------------------------------------------------------------------
(* Go slices over the heap. A store is [slings, heap].                     *)

NilSlice == [arr |-> 0, len |-> 0]

Cap(st, sl) == IF sl.arr = 0 THEN 0 ELSE Len(st.heap[sl.arr])

\* The elements of slice sl.
Elems(st, sl) == IF sl.arr = 0 THEN <<>> ELSE SubSeq(st.heap[sl.arr], 1, sl.len)

\* A sequence of n zero values.
Zeros(n) == [k \in 1..n |-> ""]

\* runtime.growslice for a small slice of 16-byte elements: the capacity
\* doubles, or becomes the needed length when that is larger.
growCap(oldCap, newLen) == IF newLen > 2 * oldCap THEN newLen ELSE 2 * oldCap

\* append(sl, v): [st, sl]. With spare capacity the value is written into the
\* shared backing array; otherwise the elements move to a new array.
appendSlice(st, sl, v) ==
  IF sl.len < Cap(st, sl)
  THEN [st |-> [st EXCEPT !.heap[sl.arr][sl.len + 1] = v],
        sl |-> [sl EXCEPT !.len = sl.len + 1]]
  ELSE LET c == growCap(Cap(st, sl), sl.len + 1)
           a == Elems(st, sl) \o <<v>> \o Zeros(c - sl.len - 1)
       IN [st |-> [st EXCEPT !.heap = Append(st.heap, a)],
           sl |-> [arr |-> Len(st.heap) + 1, len |-> sl.len + 1]]

\* A new slice holding the values vs, with no spare capacity ([]string{v},
\* append([]interface{}{}, vs...)): [st, sl].
newSlice(st, vs) ==
  IF vs = <<>> THEN [st |-> st, sl |-> NilSlice]
  ELSE [st |-> [st EXCEPT !.heap = Append(st.heap, vs)],
        sl |-> [arr |-> Len(st.heap) + 1, len |-> Len(vs)]]

----------------------------------------------------------------------------
(* The Sling struct and its methods. Each method is an operator from a     *)
(* store and its arguments to [st, ret]: the store after the call and the  *)
(* *Sling it returns.                                                      *)

\* func New() *Sling
EmptyHeader == [k \in {} |-> NilSlice]
NewSling == [HttpClient |-> DefaultClient, Method |-> "", RawUrl |-> <<>>,
             Header |-> EmptyHeader, queryStructs |-> NilSlice, jsonBody |-> Nil,
             bodyStruct |-> Nil, safeMode |-> FALSE]

\* The Header field is a Go map: a function from the canonical names it
\* holds to their value slices.
HasKey(h, k) == k \in DOMAIN h
\* h[key] = sl
PutKey(h, k, sl) == [x \in (DOMAIN h) \cup {k} |-> IF x = k THEN sl ELSE h[x]]
\* h[key]
GetSlice(h, k) == IF HasKey(h, k) THEN h[k] ELSE NilSlice

\* The copy loop of Sling.New: headerCopy[k] = v.
copyHeader(st, h) == h

\* A copy that re-slices: queryStructs: s.queryStructs.
copyQueryStructs_reslice(st, sl) == [st |-> st, sl |-> sl]

\* The queryStructs of a copy: append([]interface{}{}, s.queryStructs...).
copyQueryStructs(st, sl) == newSlice(st, Elems(st, sl))

\* return s: the receiver itself instead of a copy.
New_alias(st, i) == [st |-> st, ret |-> i]

\* A copy without `safeMode: s.safeMode`: the flag is left at its zero value.
New_unsafe(st, i) ==
  LET s == st.slings[i]
      q == newSlice(st, Elems(st, s.queryStructs))
  IN [st |-> [q.st EXCEPT !.slings = Append(q.st.slings,
                [s EXCEPT !.queryStructs = q.sl, !.safeMode = FALSE])],
      ret |-> Len(st.slings) + 1]

\* func (s *Sling) New() *Sling
New(st, i) ==
  LET s == st.slings[i]
      q == copyQueryStructs(st, s.queryStructs)
      t == [HttpClient |-> s.HttpClient, Method |-> s.Method,
            RawUrl |-> s.RawUrl, Header |-> copyHeader(st, s.Header),
            queryStructs |-> q.sl, jsonBody |-> s.jsonBody,
            bodyStruct |-> s.bodyStruct, safeMode |-> s.safeMode]
  IN [st |-> [q.st EXCEPT !.slings = Append(q.st.slings, t)],
      ret |-> Len(st.slings) + 1]

\* func (s *Sling) Safely() *Sling
Safely(st, i) ==
  LET r == New(st, i)
  IN [st |-> [r.st EXCEPT !.slings[r.ret].safeMode = TRUE], ret |-> r.ret]

\* safely that copies whatever the mode.
safely_copy(st, i) == New(st, i)

\* func (s *Sling) safely() *Sling
safely(st, i) ==
  IF st.slings[i].safeMode THEN New(st, i) ELSE [st |-> st, ret |-> i]

\* Client that stores what it is given, nil included.
Client_asGiven(st, i, httpClient) ==
  LET r == safely(st, i)
  IN [st |-> [r.st EXCEPT !.slings[r.ret].HttpClient = httpClient],
      ret |-> r.ret]

\* func (orig *Sling) Client(httpClient *http.Client) *Sling
Client(st, i, httpClient) ==
  LET r == safely(st, i)
      c == IF httpClient = Nil THEN DefaultClient ELSE httpClient
  IN [st |-> [r.st EXCEPT !.slings[r.ret].HttpClient = c], ret |-> r.ret]

\* http.Header.Add(key, value) on the Header of sling s: a store.
HeaderAdd(st, s, key, value) ==
  LET k == CanonicalHeaderKey(key)
      h == st.slings[s].Header
      a == appendSlice(st, GetSlice(h, k), value)
  IN [a.st EXCEPT !.slings[s].Header = PutKey(h, k, a.sl)]

\* Set that appends to the list the header holds.
HeaderSet_append(st, s, key, value) ==
  LET k == CanonicalHeaderKey(key)
      h == st.slings[s].Header
      a == appendSlice(st, GetSlice(h, k), value)
  IN [a.st EXCEPT !.slings[s].Header = PutKey(h, k, a.sl)]

\* http.Header.Set(key, value) on the Header of sling s: a store.
HeaderSet(st, s, key, value) ==
  LET k == CanonicalHeaderKey(key)
      h == st.slings[s].Header
      a == newSlice(st, <<value>>)
  IN [a.st EXCEPT !.slings[s].Header = PutKey(h, k, a.sl)]

\* http.Header.Get(key) on the Header of sling s.
HeaderGet(st, s, key) ==
  LET sl == GetSlice(st.slings[s].Header, CanonicalHeaderKey(key))
  IN IF sl.len = 0 THEN "" ELSE st.heap[sl.arr][1]

\* func (orig *Sling) Add(key, value string) *Sling
Add(st, i, key, value) ==
  LET r == safely(st, i)
  IN [st |-> HeaderAdd(r.st, r.ret, key, value), ret |-> r.ret]

\* func (orig *Sling) Set(key, value string) *Sling
Set(st, i, key, value) ==
  LET r == safely(st, i)
  IN [st |-> HeaderSet(r.st, r.ret, key, value), ret |-> r.ret]

\* func (orig *Sling) Base(rawURL string) *Sling
Base(st, i, rawURL) ==
  LET r == safely(st, i)
  IN [st |-> [r.st EXCEPT !.slings[r.ret].RawUrl = rawURL], ret |-> r.ret]

\* Path by string concatenation: s.RawUrl += path.
Path_concat(st, i, path) ==
  LET r == safely(st, i)
      base == Parse(r.st.slings[r.ret].RawUrl)
      ref == Parse(path)
  IN IF ~base.err /\ ~ref.err
     THEN [st |-> [r.st EXCEPT !.slings[r.ret].RawUrl = @ \o path],
           ret |-> r.ret]
     ELSE r

\* Path without the check of baseErr and pathErr.
Path_unchecked(st, i, path) ==
  LET r == safely(st, i)
      base == Parse(r.st.slings[r.ret].RawUrl)
      ref == Parse(path)
  IN [st |-> [r.st EXCEPT !.slings[r.ret].RawUrl =
                            String(ResolveReference(base.url, ref.url))],
      ret |-> r.ret]

\* func (orig *Sling) Path(path string) *Sling
Path(st, i, path) ==
  LET r == safely(st, i)
      base == Parse(r.st.slings[r.ret].RawUrl)
      ref == Parse(path)
  IN IF ~base.err /\ ~ref.err
     THEN [st |-> [r.st EXCEPT !.slings[r.ret].RawUrl =
                                 String(ResolveReference(base.url, ref.url))],
           ret |-> r.ret]
     ELSE r

\* A verb setter that sets the method only when the path parses.
setMethod_parsed(st, i, method, pathURL) ==
  LET r == safely(st, i)
  IN IF Parse(pathURL).err THEN r
     ELSE Path([r.st EXCEPT !.slings[r.ret].Method = method], r.ret, pathURL)

\* The verb setters Head, Get, Post, Put, Patch, Delete, for the verb
\* `method`: s.Method = method; return s.Path(pathURL).
setMethod(st, i, method, pathURL) ==
  LET r == safely(st, i)
  IN Path([r.st EXCEPT !.slings[r.ret].Method = method], r.ret, pathURL)

\* QueryStruct without `if queryStruct != nil`.
QueryStruct_always(st, i, queryStruct) ==
  LET r == safely(st, i)
      a == appendSlice(r.st, r.st.slings[r.ret].queryStructs, queryStruct)
  IN [st |-> [a.st EXCEPT !.slings[r.ret].queryStructs = a.sl], ret |-> r.ret]

\* func (orig *Sling) QueryStruct(queryStruct interface{}) *Sling
QueryStruct(st, i, queryStruct) ==
  LET r == safely(st, i)
      a == appendSlice(r.st, r.st.slings[r.ret].queryStructs, queryStruct)
  IN IF queryStruct # Nil
     THEN [st |-> [a.st EXCEPT !.slings[r.ret].queryStructs = a.sl],
           ret |-> r.ret]
     ELSE r

\* JsonBody without `if jsonBody != nil`.
JsonBody_always(st, i, jsonBody) ==
  LET r == safely(st, i)
      st1 == [r.st EXCEPT !.slings[r.ret].jsonBody = jsonBody]
  IN [st |-> Set(st1, r.ret, contentType, jsonContentType).st, ret |-> r.ret]

\* func (orig *Sling) JsonBody(jsonBody interface{}) *Sling
JsonBody(st, i, jsonBody) ==
  LET r == safely(st, i)
      st1 == [r.st EXCEPT !.slings[r.ret].jsonBody = jsonBody]
  IN IF jsonBody # Nil
     THEN [st |-> Set(st1, r.ret, contentType, jsonContentType).st,
           ret |-> r.ret]
     ELSE r

\* func (orig *Sling) BodyStruct(bodyStruct interface{}) *Sling
BodyStruct(st, i, bodyStruct) ==
  LET r == safely(st, i)
      st1 == [r.st EXCEPT !.slings[r.ret].bodyStruct = bodyStruct]
  IN IF bodyStruct # Nil
     THEN [st |-> Set(st1, r.ret, contentType, formContentType).st,
           ret |-> r.ret]
     ELSE r

----------------------------------------------------------------------------
(* Payloads. An interface{} value given to QueryStruct, JsonBody or        *)
(* BodyStruct is a pointer to a tagged struct, named by a string; the      *)
(* struct it points to is the sequence of its fields.                      *)

\* A field: its Go name, its json and url tag names ("" when untagged),
\* whether the json tag says omitempty, its formatted value, and whether the
\* value is the zero value / a finite number.
Field(name, json, url, omit, value, zero, finite) ==
  [name |-> name, json |-> json, url |-> url, omitempty |-> omit,
   value |-> value, zero |-> zero, finite |-> finite]

\* A payload that is not a struct: a Go string.
NotStruct == "text"

\* The url-tagged structs paramsA, paramsB and the json-tagged FakeModel
\* values of sling_test.go. The nil interface has no fields: goquery.Values
\* gives no values for it.
StructOf(p) ==
  CASE p = Nil -> << >>
    [] p = NotStruct -> << >>
    [] p = "paramsA" ->
         << Field("Limit", "", "limit", FALSE, "30", FALSE, TRUE) >>
    [] p = "paramsB" ->
         << Field("KindName", "", "kind_name", FALSE, "recent", FALSE, TRUE),
            Field("Count", "", "count", FALSE, "25", FALSE, TRUE) >>
    [] p = "paramsK" ->
         << Field("K", "", "k", FALSE, "w", FALSE, TRUE) >>
    [] p = "modelNote" ->
         << Field("Text", "text", "", TRUE, "note", FALSE, TRUE),
            Field("Temperature", "temperature", "", TRUE, "0", TRUE, TRUE) >>
    [] p = "modelMsg" ->
         << Field("Text", "text", "", TRUE, "msg", FALSE, TRUE),
            Field("Temperature", "temperature", "", TRUE, "0", TRUE, TRUE) >>
    [] p = "modelInf" ->
         << Field("Text", "text", "", TRUE, "", TRUE, TRUE),
            Field("Temperature", "temperature", "", TRUE, "+Inf", FALSE,
                  FALSE) >>

\* Query keys in the byte order sort.Strings gives them.
SortedKeys == << <<"Temperature">>, <<"Text">>, <<"count">>, <<"initial">>,
                 <<"k">>, <<"kind_name">>, <<"l">>, <<"limit">> >>

\* url.Values is a Go map from a key to the list of its values.
EmptyValues == [k \in {} |-> <<>>]

\* url.Values.Set(key, value) in the place of Add.
ValuesAdd_set(vals, key, value) ==
  [x \in (DOMAIN vals) \cup {key} |-> IF x = key THEN <<value>> ELSE vals[x]]

\* url.Values.Add(key, value)
ValuesAdd(vals, key, value) ==
  [x \in (DOMAIN vals) \cup {key} |->
     IF x = key
     THEN (IF key \in DOMAIN vals THEN vals[key] ELSE <<>>) \o <<value>>
     ELSE vals[x]]

RECURSIVE valuesOfFields(_, _)
\* goquery.Values(v): every field under its url tag name, or its Go name when
\* it has none, in declaration order.
valuesOfFields(fields, vals) ==
  IF fields = <<>> THEN vals
  ELSE LET f == Head(fields)
           key == <<IF f.url # "" THEN f.url ELSE f.name>>
       IN valuesOfFields(Tail(fields), ValuesAdd(vals, key, <<f.value>>))

goqueryValues(p) == valuesOfFields(StructOf(p), EmptyValues)

\* The error of goquery.Values(v): "query: Values() expects struct input"
\* for a value that is not nil and not a struct or a pointer to one.
goqueryErr(p) == p = NotStruct

RECURSIVE encodeKey(_, _)
\* The inner loop of url.Values.Encode for one key: key=value pairs.
encodeKey(key, vs) ==
  IF vs = <<>> THEN <<>>
  ELSE <<key \o <<"=">> \o Head(vs)>> \o encodeKey(key, Tail(vs))

RECURSIVE encodePairs(_, _)
\* The pairs of url.Values.Encode, over the keys in sorted order.
encodePairs(vals, keys) ==
  IF keys = <<>> THEN <<>>
  ELSE (IF Head(keys) \in DOMAIN vals
        THEN encodeKey(Head(keys), vals[Head(keys)]) ELSE <<>>)
       \o encodePairs(vals, Tail(keys))

RECURSIVE JoinWith(_, _)
\* strings.Join(parts, sep)
JoinWith(parts, sep) ==
  IF parts = <<>> THEN <<>>
  ELSE IF Len(parts) = 1 THEN parts[1]
  ELSE parts[1] \o <<sep>> \o JoinWith(Tail(parts), sep)

\* url.Values.Encode() without sort.Strings(keys): the keys in an order the
\* map gives them in.
ValuesEncode_unsorted(vals) ==
  JoinWith(encodePairs(vals, [k \in 1..Len(SortedKeys) |->
                                SortedKeys[Len(SortedKeys) + 1 - k]]), "&")

\* url.Values.Encode()
ValuesEncode(vals) == JoinWith(encodePairs(vals, SortedKeys), "&")

RECURSIVE SplitOn(_, _)
\* strings.Split(s, sep)
SplitOn(s, sep) ==
  LET i == Index(s, sep)
  IN IF i = 0 THEN <<s>> ELSE <<Upto(s, i - 1)>> \o SplitOn(From(s, i), sep)

RECURSIVE parseQueryLoop(_, _)
\* The loop of url.parseQuery over the "&"-separated parts: [err, vals].
parseQueryLoop(parts, vals) ==
  IF parts = <<>> THEN [err |-> FALSE, vals |-> vals]
  ELSE LET part == Head(parts)
           eq == Index(part, "=")
           key == IF eq = 0 THEN part ELSE Upto(part, eq - 1)
           value == IF eq = 0 THEN <<>> ELSE From(part, eq)
       IN IF part = <<>> THEN parseQueryLoop(Tail(parts), vals)
          ELSE IF Contains(part, BadEscape) THEN [err |-> TRUE, vals |-> vals]
          ELSE parseQueryLoop(Tail(parts), ValuesAdd(vals, key, value))

\* url.ParseQuery(query)
ParseQuery(query) == parseQueryLoop(SplitOn(query, "&"), EmptyValues)

RECURSIVE mergeValues(_, _, _)
\* for key, values := range queryValues { urlValues.Add(key, value) }
mergeValues(urlValues, queryValues, keys) ==
  IF keys = <<>> THEN urlValues
  ELSE LET k == Head(keys)
           RECURSIVE addAll(_, _)
           addAll(vals, vs) ==
             IF vs = <<>> THEN vals
             ELSE addAll(ValuesAdd(vals, k, Head(vs)), Tail(vs))
       IN mergeValues(IF k \in DOMAIN queryValues
                      THEN addAll(urlValues, queryValues[k]) ELSE urlValues,
                      queryValues, Tail(keys))

RECURSIVE addQueryLoop(_, _)
\* The loop of addQueryStructs over the query structs.
addQueryLoop(urlValues, queryStructs) ==
  IF queryStructs = <<>> THEN urlValues
  ELSE addQueryLoop(mergeValues(urlValues, goqueryValues(Head(queryStructs)),
                                SortedKeys),
                    Tail(queryStructs))

\* func addQueryStructs(reqURL *url.URL, queryStructs []interface{}) error:
\* [err, url].
addQueryStructs(reqURL, queryStructs) ==
  LET q == ParseQuery(reqURL.RawQuery)
  IN IF q.err \/ \E k \in 1..Len(queryStructs) : goqueryErr(queryStructs[k])
       THEN [err |-> TRUE, url |-> reqURL]
     ELSE [err |-> FALSE,
           url |-> [reqURL EXCEPT
                      !.RawQuery = ValuesEncode(addQueryLoop(q.vals,
                                                             queryStructs))]]

RECURSIVE jsonFields(_)
\* The "name":value members json.Encoder writes for the fields: a field
\* tagged omitempty is left out when it holds the zero value.
jsonFields(fields) ==
  IF fields = <<>> THEN <<>>
  ELSE LET f == Head(fields)
           key == IF f.json # "" THEN f.json ELSE f.name
       IN (IF f.omitempty /\ f.zero THEN <<>>
           ELSE << <<"\"", key, "\"", ":", f.value>> >>)
          \o jsonFields(Tail(fields))

\* An io.Reader: nil, or a reader of `data`.
NilReader == [nil |-> TRUE, data |-> <<>>]
Reader(data) == [nil |-> FALSE, data |-> data]

\* func encodeJSONBody(jsonBody interface{}) (io.Reader, error): [err, body].
\* json.Encoder fails on a float that is not finite.
encodeJSONBody(jsonBody) ==
  LET fields == StructOf(jsonBody)
  IN IF jsonBody = Nil THEN [err |-> FALSE, body |-> Reader(<<>>)]
     ELSE IF \E k \in 1..Len(fields) : ~fields[k].finite
     THEN [err |-> TRUE, body |-> NilReader]
     ELSE [err |-> FALSE,
           body |-> Reader(<<"{">> \o JoinWith(jsonFields(fields), ",")
                           \o <<"}", "\n">>)]

\* func encodeBodyStruct(bodyStruct interface{}) (io.Reader, error)
encodeBodyStruct(bodyStruct) ==
  IF goqueryErr(bodyStruct) THEN [err |-> TRUE, body |-> NilReader]
  ELSE [err |-> FALSE, body |-> Reader(ValuesEncode(goqueryValues(bodyStruct)))]

\* func (orig *Sling) getRequestBody() (body io.Reader, err error)
getRequestBody(st, i) ==
  LET r == safely(st, i)
      s == r.st.slings[r.ret]
  IN IF s.jsonBody # Nil /\ HeaderGet(r.st, r.ret, contentType) = jsonContentType
       THEN encodeJSONBody(s.jsonBody)
     ELSE IF s.bodyStruct # Nil
             /\ HeaderGet(r.st, r.ret, contentType) = formContentType
       THEN encodeBodyStruct(s.bodyStruct)
     ELSE [err |-> FALSE, body |-> NilReader]

\* func addHeaders(req *http.Request, header http.Header): the request's
\* header holds, under every key, a new list with the values of the sling's.
addHeaders(st, header) == [k \in DOMAIN header |-> Elems(st, header[k])]

\* What Request() returns when it fails: (nil, err).
NoRequest == [err |-> TRUE, Method |-> "", URL |-> <<>>,
              Header |-> [k \in {} |-> <<>>], Body |-> NilReader]

\* func (orig *Sling) Request() (*http.Request, error): the request, as
\* [err, Method, URL, Header, Body]. http.NewRequest takes the empty method
\* for GET and parses the URL string again.
Request(st, i) ==
  LET r == safely(st, i)
      s == r.st.slings[r.ret]
      reqURL == Parse(s.RawUrl)
      q == addQueryStructs(reqURL.url, Elems(r.st, s.queryStructs))
      body == getRequestBody(r.st, r.ret)
      again == Parse(String(q.url))
  IN IF reqURL.err \/ q.err \/ body.err \/ again.err THEN NoRequest
     ELSE [err |-> FALSE,
           Method |-> IF s.Method = "" THEN GET ELSE s.Method,
           URL |-> String(again.url),
           Header |-> addHeaders(r.st, s.Header),
           Body |-> body.body]

----------------------------------------------------------------------------
(* Sending. s.HttpClient.Do(req) returns a response and an error. When the *)
(* error is nil the response has a body, which is open. With an error the  *)
(* response is nil or, when the client gave up on a redirect, a response   *)
(* whose body the client has closed.                                       *)

\* An *http.Response: nil, or a status code and a body; a body is its data
\* and the number of Close calls made on it.
NilResponse ==
  [nil |-> TRUE, StatusCode |-> 0, Body |-> [data |-> <<>>, closes |-> 0]]
Response(code, data, closes) ==
  [nil |-> FALSE, StatusCode |-> code,
   Body |-> [data |-> data, closes |-> closes]]

\* resp.Body.Close()
Close(resp) == [resp EXCEPT !.Body.closes = @ + 1]

\* The data is one JSON object.
IsObject(data) == Len(data) >= 2 /\ data[1] = "{" /\ data[Len(data)] = "}"

\* A decoder that reads the body and writes nothing.
jsonDecode_nothing(body) ==
  [err |-> IF body.closes > 0 THEN "http: read on closed response body"
           ELSE IF body.data = <<>> THEN "EOF"
           ELSE IF IsObject(body.data) THEN Nil
           ELSE "unexpected end of JSON input",
   value |-> <<>>]

\* json.NewDecoder(body).Decode(v) for v a *FakeModel: [err, value]. A read
\* from a closed body fails, no data is io.EOF, and an object is decoded
\* into its members.
jsonDecode(body) ==
  LET data == body.data
  IN IF body.closes > 0
       THEN [err |-> "http: read on closed response body", value |-> <<>>]
     ELSE IF data = <<>> THEN [err |-> "EOF", value |-> <<>>]
     ELSE IF IsObject(data)
       THEN [err |-> Nil, value |-> SubSeq(data, 2, Len(data) - 1)]
     ELSE [err |-> "unexpected end of JSON input", value |-> <<>>]

\* func decodeResponse(resp *http.Response, v interface{}) error
decodeResponse(resp, v) == jsonDecode(resp.Body)

\* What Do leaves behind: the response and the error it returned, the calls
\* it made on the transport, the number of decoder runs, and the value v
\* points to, a zero FakeModel before the call; `failure` is the value the
\* failure target of a two-target Receive points to.
NoDo == [resp |-> NilResponse, err |-> Nil, sent |-> <<>>, decodes |-> 0,
         target |-> <<>>, failure |-> <<>>]

\* Do that closes the body after the decoder, and only when it succeeded.
Do_closeOnSuccess(st, i, request, v, o) ==
  LET d == [NoDo EXCEPT !.sent = << [client |-> safely(st, i).st.slings[
                                       safely(st, i).ret].HttpClient,
                                     req |-> request] >>]
      dec == decodeResponse(o.resp, v)
  IN IF o.err # Nil THEN [d EXCEPT !.resp = o.resp, !.err = o.err]
     ELSE IF v # Nil
       THEN [d EXCEPT !.resp = IF dec.err = Nil THEN Close(o.resp) ELSE o.resp,
                      !.err = dec.err, !.decodes = 1, !.target = dec.value]
     ELSE [d EXCEPT !.resp = Close(o.resp)]

\* Do without `if v != nil`.
Do_decodeAlways(st, i, request, v, o) ==
  LET d == [NoDo EXCEPT !.sent = << [client |-> safely(st, i).st.slings[
                                       safely(st, i).ret].HttpClient,
                                     req |-> request] >>]
      dec == decodeResponse(o.resp, v)
  IN IF o.err # Nil THEN [d EXCEPT !.resp = o.resp, !.err = o.err]
     ELSE [d EXCEPT !.resp = Close(o.resp), !.err = dec.err, !.decodes = 1,
                    !.target = IF v # Nil THEN dec.value ELSE <<>>]

\* Do that returns nil, err when the transport fails.
Do_nilOnError(st, i, request, v, o) ==
  LET d == [NoDo EXCEPT !.sent = << [client |-> safely(st, i).st.slings[
                                       safely(st, i).ret].HttpClient,
                                     req |-> request] >>]
      dec == decodeResponse(o.resp, v)
  IN IF o.err # Nil THEN [d EXCEPT !.err = o.err]
     ELSE IF v # Nil
       THEN [d EXCEPT !.resp = Close(o.resp), !.err = dec.err, !.decodes = 1,
                      !.target = dec.value]
     ELSE [d EXCEPT !.resp = Close(o.resp)]

\* Do that returns nil, err when the decoder fails.
Do_nilOnDecodeError(st, i, request, v, o) ==
  LET d == [NoDo EXCEPT !.sent = << [client |-> safely(st, i).st.slings[
                                       safely(st, i).ret].HttpClient,
                                     req |-> request] >>]
      dec == decodeResponse(o.resp, v)
  IN IF o.err # Nil THEN [d EXCEPT !.resp = o.resp, !.err = o.err]
     ELSE IF v # Nil
       THEN [d EXCEPT !.resp = IF dec.err = Nil THEN Close(o.resp)
                               ELSE NilResponse,
                      !.err = dec.err, !.decodes = 1, !.target = dec.value]
     ELSE [d EXCEPT !.resp = Close(o.resp)]

\* func (orig *Sling) Do(req *http.Request, v interface{})
\*   (*http.Response, error), when the transport answers request with
\* outcome o = [resp, err].
Do(st, i, request, v, o) ==
  LET r == safely(st, i)
      sent == << [client |-> r.st.slings[r.ret].HttpClient,
                  req |-> request] >>
      dec == decodeResponse(o.resp, v)
  IN IF o.err # Nil
       THEN [NoDo EXCEPT !.resp = o.resp, !.err = o.err, !.sent = sent]
     ELSE IF v # Nil
       THEN [NoDo EXCEPT !.resp = Close(o.resp), !.err = dec.err,
                         !.sent = sent, !.decodes = 1, !.target = dec.value]
     ELSE [NoDo EXCEPT !.resp = Close(o.resp), !.sent = sent]

\* Receive that sends what it has when Request() fails.
Receive_sendAnyway(st, i, v, o) ==
  LET r == safely(st, i)
  IN Do(r.st, r.ret, Request(r.st, r.ret), v, o)

\* func (orig *Sling) Receive(v interface{}) (*http.Response, error), when
\* the transport answers with outcome o.
Receive(st, i, v, o) ==
  LET r == safely(st, i)
      request == Request(r.st, r.ret)
  IN IF request.err THEN [NoDo EXCEPT !.err = "Request: error"]
     ELSE Do(r.st, r.ret, request, v, o)

----------------------------------------------------------------------------
(* The state: the Sling instances the caller holds, the backing arrays of  *)
(* their slices, the last call made, and the request it built or what it   *)
(* sent, if any.                                                           *)

VARIABLES
  slings,   \* the Sling instances, a *Sling being an index
  heap,     \* the backing arrays of the slices, each a sequence of cells
  last,     \* the last call: [op, recv, ret, arg]
  req,      \* what the last call returned, if it was Request()
  done,     \* what the last call did and returned, if it was Do()
  threads,  \* two goroutines, each with a child of sling 1: [child, steps,
            \* writes, reads, mine, turn]
  snap      \* a request the caller keeps: [req, map, steps], `map` being the
            \* sling whose header map is the request's, 0 if it has its own

vars == <<slings, heap, last, req, done, threads, snap>>

Store == [slings |-> slings, heap |-> heap]

\* The backing arrays sling s refers to, in scan order.
slingRefs(s) ==
  [k \in 1..Len(KeyOrder) |-> GetSlice(s.Header, KeyOrder[k]).arr]
  \o <<s.queryStructs.arr>>

RECURSIVE allRefs(_)
allRefs(ss) == IF ss = <<>> THEN <<>> ELSE slingRefs(Head(ss)) \o allRefs(Tail(ss))

RECURSIVE liveArrays(_, _)
\* The arrays of `refs` in order of first reference.
liveArrays(refs, seen) ==
  IF refs = <<>> THEN seen
  ELSE liveArrays(Tail(refs),
                  IF Head(refs) = 0 \/ Contains(seen, Head(refs)) THEN seen
                  ELSE Append(seen, Head(refs)))

\* The slices of the slings ss, in scan order.
slingSlices(s) ==
  [k \in 1..Len(KeyOrder) |-> GetSlice(s.Header, KeyOrder[k])]
  \o <<s.queryStructs>>

RECURSIVE allSlices(_)
allSlices(ss) ==
  IF ss = <<>> THEN <<>> ELSE slingSlices(Head(ss)) \o allSlices(Tail(ss))

RECURSIVE maxLen(_, _)
\* The largest length of a slice of `sls` over array a.
maxLen(sls, a) ==
  IF sls = <<>> THEN 0
  ELSE LET m == maxLen(Tail(sls), a)
       IN IF Head(sls).arr = a /\ Head(sls).len > m THEN Head(sls).len ELSE m

\* Garbage collection. `held` are the instances the caller holds after a
\* call, in the order it holds them; an instance not held is unreachable,
\* and so is an array no held instance refers to. The arrays are renumbered
\* in order of first reference, and a cell beyond the length of every slice
\* over its array, which no read reaches before an append writes it, is
\* cleared.
Collect(st, held) ==
  LET kept == [k \in 1..Len(held) |-> st.slings[held[k]]]
      live == liveArrays(allRefs(kept), <<>>)
      sls == allSlices(kept)
      move(sl) == IF sl.arr = 0 THEN sl
                  ELSE [sl EXCEPT !.arr = Index(live, sl.arr)]
      clear(a) == LET m == maxLen(sls, a)
                  IN [j \in 1..Len(st.heap[a]) |->
                        IF j <= m THEN st.heap[a][j] ELSE ""]
  IN [slings |->
        [k \in 1..Len(kept) |->
           [kept[k] EXCEPT
              !.Header = [x \in DOMAIN kept[k].Header |->
                            move(kept[k].Header[x])],
              !.queryStructs = move(kept[k].queryStructs)]],
      heap |-> [k \in 1..Len(live) |-> clear(live[k])]]

\* The caller holds at most n instances, with header value lists and query
\* struct lists of at most m elements and URLs of at most u lexemes.
Within(n, m, u) ==
  /\ Len(slings) <= n
  /\ \A i \in 1..Len(slings) :
       /\ Len(slings[i].RawUrl) <= u
       /\ slings[i].queryStructs.len <= m
       /\ \A k \in DOMAIN slings[i].Header : slings[i].Header[k].len <= m

\* The caller makes call `op` with arguments `arg` on the instance it holds
\* in variable i; r is what the method's operator gives, [st, ret]. When the
\* method returns a new instance, the caller holds it in variable v: a new
\* variable (t := s.Op()), the variable of an instance it holds, which that
\* instance leaves (s = s.Op(), t = s.Op()), or none, v = 0 (s.Op()).
\* `last` names the variable the result is in, 0 if none, and the variable
\* the receiver is in after the call, 0 if the result took its place.
Call(op, i, arg, r) ==
  LET n == Len(slings)
      ids == [k \in 1..n |-> k]
  IN \E v \in IF r.ret <= n THEN {r.ret} ELSE 0..(n + 1) :
       LET held == IF r.ret <= n \/ v = 0 THEN ids
                   ELSE IF v = n + 1 THEN Append(ids, r.ret)
                   ELSE [ids EXCEPT ![v] = r.ret]
           c == Collect(r.st, held)
       IN /\ slings' = c.slings
          /\ heap' = c.heap
          /\ last' = [op |-> op, arg |-> arg,
                      recv |-> IF r.ret > n /\ v = i THEN 0 ELSE i,
                      ret |-> v]
          /\ req' = NoRequest
          /\ done' = NoDo
          /\ threads' = threads
          /\ snap' = snap

\* No request is kept.
NoSnap == [req |-> NoRequest, map |-> 0, steps |-> 0]

\* No goroutine has started.
NoThreads == [child |-> <<0, 0>>, steps |-> <<0, 0>>,
              writes |-> <<{}, {}>>, reads |-> <<{}, {}>>,
              mine |-> <<NoRequest, NoRequest>>, turn |-> 0]

Init ==
  /\ slings = <<NewSling>>
  /\ heap = <<>>
  /\ last = [op |-> "New()", recv |-> 0, ret |-> 1, arg |-> <<>>]
  /\ req = NoRequest
  /\ done = NoDo
  /\ threads = NoThreads
  /\ snap = NoSnap

Slings == 1..Len(slings)

CallNew(i) == Call("New", i, <<>>, New(Store, i))
CallSafely(i) == Call("Safely", i, <<>>, Safely(Store, i))
CallClient(i, c) == Call("Client", i, <<c>>, Client(Store, i, c))
CallHead(i, p) == Call("Head", i, <<p>>, setMethod(Store, i, HEAD, p))
CallGet(i, p) == Call("Get", i, <<p>>, setMethod(Store, i, GET, p))
CallPost(i, p) == Call("Post", i, <<p>>, setMethod(Store, i, POST, p))
CallPut(i, p) == Call("Put", i, <<p>>, setMethod(Store, i, PUT, p))
CallPatch(i, p) == Call("Patch", i, <<p>>, setMethod(Store, i, PATCH, p))
CallDelete(i, p) == Call("Delete", i, <<p>>, setMethod(Store, i, DELETE, p))
CallAdd(i, k, v) == Call("Add", i, <<k, v>>, Add(Store, i, k, v))
CallSet(i, k, v) == Call("Set", i, <<k, v>>, Set(Store, i, k, v))
CallBase(i, u) == Call("Base", i, <<u>>, Base(Store, i, u))
CallPath(i, p) == Call("Path", i, <<p>>, Path(Store, i, p))
CallQueryStruct(i, q) == Call("QueryStruct", i, <<q>>, QueryStruct(Store, i, q))
CallJsonBody(i, b) == Call("JsonBody", i, <<b>>, JsonBody(Store, i, b))
CallBodyStruct(i, b) == Call("BodyStruct", i, <<b>>, BodyStruct(Store, i, b))

\* copy.queryStructs[0] = nil, as TestSlingNew does to look for a re-slice:
\* cell k of the query-struct list of instance i is overwritten.
OverwriteQueryStruct(i, k) ==
  /\ k \in 1..slings[i].queryStructs.len
  /\ heap' = [heap EXCEPT ![slings[i].queryStructs.arr][k] = Nil]
  /\ last' = [op |-> "overwrite", arg |-> <<k>>, recv |-> i, ret |-> i]
  /\ req' = NoRequest
  /\ done' = NoDo
  /\ threads' = threads
  /\ snap' = snap
  /\ UNCHANGED slings

\* Request that keeps the URL it built, merged query included, in the
\* builder.
CallRequest_writeBack(i) ==
  LET rq == Request(Store, i)
      c == Collect(safely(Store, i).st, [k \in 1..Len(slings) |-> k])
  IN /\ req' = rq
     /\ slings' = IF rq.err THEN c.slings
                  ELSE [c.slings EXCEPT ![i].RawUrl = rq.URL]
     /\ heap' = c.heap
     /\ last' = [op |-> "Request", recv |-> i, ret |-> i, arg |-> <<>>]
     /\ done' = NoDo
     /\ threads' = threads
     /\ snap' = snap

\* The caller builds a request from instance i. The copy Request works on
\* in safe mode is unreachable once it returns.
CallRequest(i) ==
  LET c == Collect(safely(Store, i).st, [k \in 1..Len(slings) |-> k])
  IN /\ req' = Request(Store, i)
     /\ slings' = c.slings
     /\ heap' = c.heap
     /\ last' = [op |-> "Request", recv |-> i, ret |-> i, arg |-> <<>>]
     /\ done' = NoDo
     /\ threads' = threads
     /\ snap' = snap

\* A request made with http.NewRequest("GET", server.URL, nil), as TestDo
\* makes it.
DirectRequest ==
  [err |-> FALSE, Method |-> GET, URL |-> <<"http", ":", "/", "/", "a.io">>,
   Header |-> [k \in {} |-> <<>>], Body |-> NilReader]

\* The caller sends request rq through instance i to decode the response
\* into v; the transport answers with outcome o. The copy Do works on in
\* safe mode is unreachable once it returns.
CallDo(i, rq, v, o) ==
  LET c == Collect(safely(Store, i).st, [k \in 1..Len(slings) |-> k])
  IN /\ ~rq.err
     /\ done' = Do(Store, i, rq, v, o)
     /\ threads' = threads
     /\ snap' = snap
     /\ slings' = c.slings
     /\ heap' = c.heap
     /\ last' = [op |-> "Do", recv |-> i, ret |-> i, arg |-> <<rq, v, o>>]
     /\ req' = NoRequest

\* The status classification of the two-target Receive: the success range
\* is 2XX.
IsSuccess(code) == code \in 200..299

\* Receive(successV, failureV interface{}) (*http.Response, error), the
\* two-target Receive of the README and of examples/github.go, when the
\* transport answers with outcome o: build, send, and decode the body into
\* the target of the response's status class, a nil target skipping the
\* decoder; the body is closed on every path after a transport success.
Receive2(st, i, successV, failureV, o) ==
  LET r == safely(st, i)
      request == Request(r.st, r.ret)
      sent == << [client |-> r.st.slings[r.ret].HttpClient,
                  req |-> request] >>
      ok == IsSuccess(o.resp.StatusCode)
      v == IF ok THEN successV ELSE failureV
      dec == decodeResponse(o.resp, v)
  IN IF request.err THEN [NoDo EXCEPT !.err = "Request: error"]
     ELSE IF o.err # Nil
       THEN [NoDo EXCEPT !.resp = o.resp, !.err = o.err, !.sent = sent]
     ELSE IF v # Nil
       THEN [NoDo EXCEPT !.resp = Close(o.resp), !.err = dec.err,
                         !.sent = sent, !.decodes = 1,
                         !.target = IF ok THEN dec.value ELSE <<>>,
                         !.failure = IF ok THEN <<>> ELSE dec.value]
     ELSE [NoDo EXCEPT !.resp = Close(o.resp), !.sent = sent]

\* The caller has instance i build a request, send it and decode the
\* response into v; the transport, if called, answers with outcome o.
CallReceive(i, v, o) ==
  LET c == Collect(safely(Store, i).st, [k \in 1..Len(slings) |-> k])
  IN /\ done' = Receive(Store, i, v, o)
     /\ threads' = threads
     /\ snap' = snap
     /\ slings' = c.slings
     /\ heap' = c.heap
     /\ last' = [op |-> "Receive", recv |-> i, ret |-> i, arg |-> <<v, o>>]
     /\ req' = NoRequest

\* The same with the two-target Receive.
CallReceive2(i, successV, failureV, o) ==
  LET c == Collect(safely(Store, i).st, [k \in 1..Len(slings) |-> k])
  IN /\ done' = Receive2(Store, i, successV, failureV, o)
     /\ threads' = threads
     /\ snap' = snap
     /\ slings' = c.slings
     /\ heap' = c.heap
     /\ last' = [op |-> "Receive2", recv |-> i, ret |-> i,
                 arg |-> <<successV, failureV, o>>]
     /\ req' = NoRequest

----------------------------------------------------------------------------
(* Specifications: the calls of a caller, with arguments from small sets.  *)

\* Header names and values given to Add and Set.
HeaderKeys == { <<"x", "-", "k">> }
HeaderValues == {"a", "b"}
\* Payloads given to JsonBody and BodyStruct.
Bodies == {Nil, "modelNote", "modelMsg"}

\* Headers under derivation.
HeaderFits == Within(MaxHeaderSlings, MaxLen, 0)

NextHeader ==
  \/ \E i \in Slings : CallNew(i) /\ HeaderFits'
  \/ \E i \in Slings, k \in HeaderKeys, v \in HeaderValues :
       CallAdd(i, k, v) /\ HeaderFits'
  \/ \E i \in Slings, k \in HeaderKeys, v \in HeaderValues :
       CallSet(i, k, v) /\ HeaderFits'

SpecHeader == Init /\ [][NextHeader]_vars

\* Values given to QueryStruct.
QueryStructs == {Nil, "paramsA", "paramsB"}

\* Query structs under derivation.
QueryFits == Within(MaxQuerySlings, MaxQueryLen, 0)

NextQuery ==
  \/ \E i \in Slings : CallNew(i) /\ QueryFits'
  \/ \E i \in Slings, q \in QueryStructs : CallQueryStruct(i, q) /\ QueryFits'
  \/ \E i \in Slings, k \in 1..MaxQueryLen : OverwriteQueryStruct(i, k)
  \/ \E i \in Slings : CallRequest(i)

SpecQuery == Init /\ [][NextQuery]_vars

\* The base URL and the paths of the README's examples, and the payloads
\* given to JsonBody and BodyStruct.
BaseURL == <<"http", ":", "/", "/", "a.io", "/">>
Paths == { <<"foo", "/">>, <<"bar", "/">> }

\* Method, URL and bodies under derivation. The caller gives a builder its
\* base URL before it extends the path, and a body to POST builders only.
DeriveFits ==
  /\ Within(MaxDeriveSlings, MaxLen, MaxUrlLen)
  /\ \A i \in 1..Len(slings) :
       /\ slings[i].RawUrl = <<>> \/ HasPrefix(slings[i].RawUrl, BaseURL)
       /\ slings[i].jsonBody # Nil \/ slings[i].bodyStruct # Nil
            => slings[i].Method = POST

NextDerive ==
  \/ \E i \in Slings : CallNew(i) /\ DeriveFits'
  \/ \E i \in Slings, p \in Paths : CallHead(i, p) /\ DeriveFits'
  \/ \E i \in Slings, p \in Paths : CallGet(i, p) /\ DeriveFits'
  \/ \E i \in Slings, p \in Paths : CallPost(i, p) /\ DeriveFits'
  \/ \E i \in Slings, p \in Paths : CallPut(i, p) /\ DeriveFits'
  \/ \E i \in Slings, p \in Paths : CallPatch(i, p) /\ DeriveFits'
  \/ \E i \in Slings, p \in Paths : CallDelete(i, p) /\ DeriveFits'
  \/ \E i \in Slings : CallBase(i, BaseURL) /\ DeriveFits'
  \/ \E i \in Slings, p \in Paths : CallPath(i, p) /\ DeriveFits'
  \/ \E i \in Slings : CallJsonBody(i, "modelNote") /\ DeriveFits'
  \/ \E i \in Slings : CallBodyStruct(i, "paramsA") /\ DeriveFits'
  \/ \E i \in Slings : CallRequest(i)

SpecDerive == Init /\ [][NextDerive]_vars

\* A transport given to Client.
Clients == {Nil, "client"}

\* A configuration and its copy. The caller configures a builder, keeping
\* each result in the builder's variable, and holds a second instance only
\* as the result of New.
CopyFits ==
  /\ Within(MaxCopySlings, MaxCopyLen, MaxUrlLen)
  /\ Len(slings) > 1 => last.op = "New"

NextCopy ==
  \/ \E i \in Slings : CallNew(i) /\ CopyFits'
  \/ \E i \in Slings : CallSafely(i) /\ CopyFits'
  \/ \E i \in Slings, c \in Clients : CallClient(i, c) /\ CopyFits'
  \/ \E i \in Slings : CallPost(i, <<>>) /\ CopyFits'
  \/ \E i \in Slings : CallBase(i, BaseURL) /\ CopyFits'
  \/ \E i \in Slings, k \in HeaderKeys : CallAdd(i, k, "a") /\ CopyFits'
  \/ \E i \in Slings : CallQueryStruct(i, "paramsA") /\ CopyFits'
  \/ \E i \in Slings : CallJsonBody(i, "modelNote") /\ CopyFits'
  \/ \E i \in Slings : CallBodyStruct(i, "paramsA") /\ CopyFits'

SpecCopy == Init /\ [][NextCopy]_vars

\* Headers in safe mode. The caller puts a new builder in safe mode before
\* it configures it: S := New().Safely().
SafeFits ==
  /\ Within(MaxSafeSlings, MaxLen, 0)
  /\ \A i \in 1..Len(slings) : slings[i].safeMode \/ slings[i] = NewSling

NextSafe ==
  \/ \E i \in Slings : CallSafely(i) /\ SafeFits'
  \/ \E i \in Slings, k \in HeaderKeys, v \in HeaderValues :
       CallAdd(i, k, v) /\ SafeFits'
  \/ \E i \in Slings, k \in HeaderKeys : CallSet(i, k, "a") /\ SafeFits'

SpecSafe == Init /\ [][NextSafe]_vars

\* Payloads given to BodyStruct.
Forms == {Nil, "paramsA"}

\* Bodies, in place and in safe mode.
BodyFits == Within(MaxBodySlings, MaxLen, 0)

NextBody ==
  \/ \E i \in Slings : CallSafely(i) /\ BodyFits'
  \/ \E i \in Slings, b \in Bodies : CallJsonBody(i, b) /\ BodyFits'
  \/ \E i \in Slings, b \in Forms : CallBodyStruct(i, b) /\ BodyFits'
  \/ \E i \in Slings : CallRequest(i)

SpecBody == Init /\ [][NextBody]_vars

\* URLs given to Base: those of TestPathSetter, one with an upper-case
\* scheme, a relative one, and one that does not parse.
RawURLs ==
  { <<>>, BaseURL,
    <<"http", ":", "/", "/", "a.io">>,
    <<"http", ":", "/", "/", "a.io", "/", "foo">>,
    <<"HTTP", ":", "/", "/", "a.io", "/">>,
    <<"foo">>,
    <<"http", ":", "/", "/", "a.io", "/", BadEscape>> }
\* Paths given to Path: relative, rooted, absolute, empty, and two that do
\* not parse.
PathURLs ==
  { <<>>, <<"foo">>, <<"bar">>, <<"foo", "/">>, <<"/", "bar">>,
    <<"http", ":", "/", "/", "b.io", "/">>,
    <<"http", ":", "/", "/", "b.io">>,
    <<BadEscape>>, <<":", "foo">> }

\* Path extension, in place and in safe mode.
PathFits == Within(MaxPathSlings, MaxLen, MaxUrlLen)

NextPath ==
  \/ \E i \in Slings : CallSafely(i) /\ PathFits'
  \/ \E i \in Slings, u \in RawURLs : CallBase(i, u) /\ PathFits'
  \/ \E i \in Slings, p \in PathURLs : CallPath(i, p) /\ PathFits'

SpecPath == Init /\ [][NextPath]_vars

\* Paths given to the verb setters: those of TestRequest_urlAndMethod, and
\* one that does not parse.
VerbPaths ==
  { <<"http", ":", "/", "/", "a.io", "/">>, <<"foo", "/">>, <<"bar">>,
    <<"http", ":", "/", "/", "b.io">>, <<BadEscape>> }

\* Verb setters in a chain, in place and in safe mode.
VerbFits == Within(MaxVerbSlings, MaxLen, MaxUrlLen)

NextVerb ==
  \/ \E i \in Slings : CallSafely(i) /\ VerbFits'
  \/ \E i \in Slings, p \in VerbPaths : CallHead(i, p) /\ VerbFits'
  \/ \E i \in Slings, p \in VerbPaths : CallGet(i, p) /\ VerbFits'
  \/ \E i \in Slings, p \in VerbPaths : CallPost(i, p) /\ VerbFits'
  \/ \E i \in Slings, p \in VerbPaths : CallPut(i, p) /\ VerbFits'
  \/ \E i \in Slings, p \in VerbPaths : CallPatch(i, p) /\ VerbFits'
  \/ \E i \in Slings, p \in VerbPaths : CallDelete(i, p) /\ VerbFits'

SpecVerb == Init /\ [][NextVerb]_vars

\* URLs given to Base before query structs are added: those of
\* TestAddQueryStructs, one whose query has a key of paramsA, and one whose
\* query is not in key order.
MergeURLs ==
  { <<"http", ":", "/", "/", "a.io">>,
    <<"http", ":", "/", "/", "a.io", "?", "initial", "=", "7">>,
    <<"http", ":", "/", "/", "a.io", "?", "limit", "=", "7">>,
    <<"a.io", "?", "l", "=", "v", "&", "k", "=", "w">> }

\* Query structs added to a URL with a query, in place and in safe mode.
MergeFits == Within(MaxMergeSlings, MaxMergeLen, MaxUrlLen)

NextMerge ==
  \/ \E i \in Slings : CallNew(i) /\ MergeFits'
  \/ \E i \in Slings : CallSafely(i) /\ MergeFits'
  \/ \E i \in Slings, u \in MergeURLs : CallBase(i, u) /\ MergeFits'
  \/ \E i \in Slings, q \in QueryStructs : CallQueryStruct(i, q) /\ MergeFits'
  \/ \E i \in Slings : CallRequest(i)

SpecMerge == Init /\ [][NextMerge]_vars

\* URLs given to Base before a request is built: one that parses, one whose
\* path does not, one whose query does not.
BuildURLs ==
  { <<"http", ":", "/", "/", "a.io">>,
    <<"http", ":", "/", "/", "a.io", "/", BadEscape>>,
    <<"http", ":", "/", "/", "a.io", "?", BadEscape>> }
\* Values given to QueryStruct, one of them not a struct, and payloads given
\* to JsonBody, one of them with Temperature +Inf.
BuildStructs == {"paramsA", NotStruct}
BuildBodies == {"modelNote", "modelInf"}

\* Request building, in place and in safe mode.
BuildFits == Within(MaxBuildSlings, MaxMergeLen, MaxUrlLen)

NextBuild ==
  \/ \E i \in Slings : CallSafely(i) /\ BuildFits'
  \/ \E i \in Slings, u \in BuildURLs : CallBase(i, u) /\ BuildFits'
  \/ \E i \in Slings, q \in BuildStructs : CallQueryStruct(i, q) /\ BuildFits'
  \/ \E i \in Slings, b \in BuildBodies : CallJsonBody(i, b) /\ BuildFits'
  \/ \E i \in Slings : CallRequest(i)

SpecBuild == Init /\ [][NextBuild]_vars

\* What the transport answers: a failure without a response, a failed
\* redirect with a response whose body is closed, or a response with one of
\* the status codes and bodies; the bodies are empty, the JSON object of
\* TestDo's mock server, and the start of one.
StatusCodes == {200, 201, 404, 500}
BodyData == { <<>>, <<"{", "\"", "text", "\"", ":", "note", "}">>,
              <<"{", "\"", "text">> }
Outcomes ==
  { [resp |-> NilResponse, err |-> "dial tcp: connection refused"],
    [resp |-> Response(302, <<>>, 1), err |-> "stopped after 10 redirects"] }
  \cup { [resp |-> Response(code, data, 0), err |-> Nil] :
           code \in StatusCodes, data \in BodyData }
\* What the caller has a response decoded into: nothing, or a *FakeModel.
Targets == {Nil, "model"}

\* Sending, in place and in safe mode.
DoFits == Within(MaxDoSlings, MaxLen, MaxUrlLen)

NextDo ==
  \/ \E i \in Slings : CallSafely(i) /\ DoFits'
  \/ \E i \in Slings, c \in Clients : CallClient(i, c) /\ DoFits'
  \/ \E i \in Slings : CallBase(i, BaseURL) /\ DoFits'
  \/ \E i \in Slings :
       \E rq \in {DirectRequest, Request(Store, i)}, v \in Targets,
          o \in Outcomes : CallDo(i, rq, v, o)

SpecDo == Init /\ [][NextDo]_vars

\* Build and send, in place and in safe mode, from URLs that parse and one
\* that does not.
ReceiveFits == Within(MaxReceiveSlings, MaxLen, MaxUrlLen)

NextReceive ==
  \/ \E i \in Slings : CallSafely(i) /\ ReceiveFits'
  \/ \E i \in Slings, u \in BuildURLs : CallBase(i, u) /\ ReceiveFits'
  \/ \E i \in Slings : CallPost(i, <<"foo">>) /\ ReceiveFits'
  \/ \E i \in Slings, v \in Targets, o \in Outcomes : CallReceive(i, v, o)

SpecReceive == Init /\ [][NextReceive]_vars

\* What the caller has a failure response decoded into: nothing, or a
\* *GithubError.
FailureTargets == {Nil, "failure"}

NextReceive2 ==
  \/ \E i \in Slings : CallSafely(i) /\ ReceiveFits'
  \/ \E i \in Slings, u \in BuildURLs : CallBase(i, u) /\ ReceiveFits'
  \/ \E i \in Slings, sv \in Targets, fv \in FailureTargets, o \in Outcomes :
       CallReceive2(i, sv, fv, o)

SpecReceive2 == Init /\ [][NextReceive2]_vars

\* Transports: builders, their children and safe-mode copies, with a
\* method and a header beside the client.
NextClient ==
  \/ \E i \in Slings : CallNew(i) /\ Within(MaxCopySlings, MaxCopyLen, 0)'
  \/ \E i \in Slings : CallSafely(i) /\ Within(MaxCopySlings, MaxCopyLen, 0)'
  \/ \E i \in Slings, c \in Clients :
       CallClient(i, c) /\ Within(MaxCopySlings, MaxCopyLen, 0)'
  \/ \E i \in Slings : CallPost(i, <<>>) /\ Within(MaxCopySlings, MaxCopyLen, 0)'
  \/ \E i \in Slings, k \in HeaderKeys :
       CallAdd(i, k, "a") /\ Within(MaxCopySlings, MaxCopyLen, 0)'

SpecClient == Init /\ [][NextClient]_vars

MaxCaseSlings == 1
MaxCaseLen == 2

\* Header names in several spellings.
CaseKeys == { <<"x", "-", "k">>, <<"X", "-", "k">>,
              <<"c", "o", "n", "t", "e", "n", "t", "-", "t", "y", "p", "e">> }

\* Headers of one builder, in place and in safe mode, and the requests built
\* from them.
NextHeaders ==
  \/ \E i \in Slings :
       CallSafely(i) /\ Within(MaxCaseSlings, MaxCaseLen, 0)'
  \/ \E i \in Slings, k \in CaseKeys, v \in HeaderValues :
       CallAdd(i, k, v) /\ Within(MaxCaseSlings, MaxCaseLen, 0)'
  \/ \E i \in Slings, k \in CaseKeys, v \in HeaderValues :
       CallSet(i, k, v) /\ Within(MaxCaseSlings, MaxCaseLen, 0)'
  \/ \E i \in Slings : CallRequest(i)

SpecHeaders == Init /\ [][NextHeaders]_vars

MaxThreadSteps == 2
MaxThreadLen == 3

\* The cells 1..n of backing array a, as storage locations.
Cells(a, n) == { <<"cell", a, j>> : j \in 1..n }

\* The cells the slice sl reads from.
SliceCells(sl) == IF sl.arr = 0 THEN {} ELSE Cells(sl.arr, sl.len)

\* The cells of the arrays a call allocated, store st becoming store nw.
FreshCells(st, nw) ==
  UNION { Cells(a, Len(nw.heap[a])) : a \in (Len(st.heap) + 1)..Len(nw.heap) }

\* The cells append(sl, v) writes outside fresh arrays and the cells it
\* reads: with spare capacity it writes the cell after the slice, without it
\* copies the slice's cells to a new array.
appendWrites(st, sl) ==
  IF sl.len < Cap(st, sl) THEN { <<"cell", sl.arr, sl.len + 1>> } ELSE {}
appendReads(st, sl) == IF sl.len < Cap(st, sl) THEN {} ELSE SliceCells(sl)

\* The cells Request() reads on sling c: the header's values in addHeaders
\* and the query structs in addQueryStructs.
requestReads(st, c) ==
  UNION { SliceCells(st.slings[c].Header[k]) : k \in DOMAIN st.slings[c].Header }
  \cup SliceCells(st.slings[c].queryStructs)

\* The path and the header value goroutine t uses.
ThreadPaths == << <<"foo">>, <<"bar">> >>
ThreadValues == <<"b", "c">>

\* Goroutine t makes a call on its child: r is what the method's operator
\* gives, w and rd the shared-array cells the call writes and reads. The
\* call also writes and reads the child's struct and writes the arrays it
\* allocates. `mine` is the request the child would build right after the
\* call.
ThreadCall(t, op, arg, r, w, rd) ==
  LET c == threads.child[t]
  IN /\ c # 0
     /\ threads.steps[t] < MaxThreadSteps
     /\ slings' = r.st.slings
     /\ heap' = r.st.heap
     /\ last' = [op |-> op, arg |-> arg, recv |-> c, ret |-> r.ret]
     /\ req' = NoRequest
     /\ done' = NoDo
     /\ snap' = snap
     /\ threads' = [threads EXCEPT
          !.steps[t] = @ + 1,
          !.writes[t] = @ \cup w \cup FreshCells(Store, r.st)
                          \cup { <<"sling", c>> },
          !.reads[t] = @ \cup rd \cup { <<"sling", c>> },
          !.mine[t] = Request(r.st, c),
          !.turn = t]

\* go func() { child := base.New(); ... }: goroutine t derives its child
\* from sling 1. New reads the base's struct, header map and query structs.
ThreadNew(t) ==
  LET r == New(Store, 1)
  IN /\ threads.child[t] = 0
     /\ slings' = r.st.slings
     /\ heap' = r.st.heap
     /\ last' = [op |-> "New", arg |-> <<>>, recv |-> 1, ret |-> r.ret]
     /\ req' = NoRequest
     /\ done' = NoDo
     /\ snap' = snap
     /\ threads' = [threads EXCEPT
          !.child[t] = r.ret,
          !.writes[t] = @ \cup FreshCells(Store, r.st)
                          \cup { <<"sling", r.ret>> },
          !.reads[t] = @ \cup SliceCells(slings[1].queryStructs)
                         \cup { <<"sling", 1>> },
          !.mine[t] = Request(r.st, r.ret),
          !.turn = t]

ThreadAdd(t, key, value) ==
  LET c == threads.child[t]
      sl == GetSlice(slings[c].Header, CanonicalHeaderKey(key))
  IN ThreadCall(t, "Add", <<key, value>>, Add(Store, c, key, value),
                appendWrites(Store, sl), appendReads(Store, sl))

ThreadSet(t, key, value) ==
  ThreadCall(t, "Set", <<key, value>>,
             Set(Store, threads.child[t], key, value), {}, {})

ThreadGet(t, pathURL) ==
  ThreadCall(t, "Get", <<pathURL>>,
             setMethod(Store, threads.child[t], GET, pathURL), {}, {})

ThreadQueryStruct(t, queryStruct) ==
  LET c == threads.child[t]
  IN ThreadCall(t, "QueryStruct", <<queryStruct>>,
                QueryStruct(Store, c, queryStruct),
                appendWrites(Store, slings[c].queryStructs),
                appendReads(Store, slings[c].queryStructs))

\* Goroutine t builds the request of its child.
ThreadRequest(t) ==
  LET c == threads.child[t]
  IN /\ c # 0
     /\ threads.steps[t] < MaxThreadSteps
     /\ req' = Request(Store, c)
     /\ last' = [op |-> "Request", arg |-> <<>>, recv |-> c, ret |-> c]
     /\ done' = NoDo
     /\ snap' = snap
     /\ threads' = [threads EXCEPT
          !.steps[t] = @ + 1,
          !.reads[t] = @ \cup requestReads(Store, c) \cup { <<"sling", c>> },
          !.turn = t]
     /\ UNCHANGED <<slings, heap>>

\* One goroutine configures the base; then two goroutines derive a child
\* each and use it, in any interleaving, and nothing touches the base.
NextThreads ==
  \/ \E k \in HeaderKeys :
       /\ threads = NoThreads
       /\ CallAdd(1, k, "a")
       /\ Within(1, MaxThreadLen, 0)'
  \/ \E t \in 1..2 : ThreadNew(t)
  \/ \E t \in 1..2, k \in HeaderKeys : ThreadAdd(t, k, ThreadValues[t])
  \/ \E t \in 1..2, k \in HeaderKeys : ThreadSet(t, k, ThreadValues[t])
  \/ \E t \in 1..2 : ThreadGet(t, ThreadPaths[t])
  \/ \E t \in 1..2 : ThreadQueryStruct(t, "paramsA")
  \/ \E t \in 1..2 : ThreadRequest(t)

SpecThreads == Init /\ [][NextThreads]_vars

MaxInPlaceSlings == 2

\* Builders, their children and their safe-mode copies under setter calls.
NextInPlace ==
  \/ \E i \in Slings : CallNew(i) /\ Within(MaxInPlaceSlings, MaxCopyLen, 0)'
  \/ \E i \in Slings : CallSafely(i) /\ Within(MaxInPlaceSlings, MaxCopyLen, 0)'
  \/ \E i \in Slings :
       CallPost(i, <<>>) /\ Within(MaxInPlaceSlings, MaxCopyLen, 0)'
  \/ \E i \in Slings, k \in HeaderKeys :
       CallSet(i, k, "a") /\ Within(MaxInPlaceSlings, MaxCopyLen, 0)'
  \/ \E i \in Slings :
       CallJsonBody(i, "modelNote") /\ Within(MaxInPlaceSlings, MaxCopyLen, 0)'

SpecInPlace == Init /\ [][NextInPlace]_vars

MaxModesLen == 1

\* s = s.Op(...); t = t.Op(...): the caller makes the same call on the
\* builder in variable 1 and then on the builder in variable 2, keeping each
\* result in the variable of its receiver. r1 is what the method's operator
\* gives for sling 1, r2 what it gives for sling 2 in the store of r1.
PairCall(op, arg, r1, r2) ==
  LET c == Collect(r2.st, <<r1.ret, r2.ret>>)
  IN /\ Len(slings) = 2
     /\ slings' = c.slings
     /\ heap' = c.heap
     /\ last' = [op |-> op, arg |-> arg, recv |-> 1, ret |-> 2]
     /\ req' = NoRequest
     /\ done' = NoDo
     /\ threads' = threads
     /\ snap' = snap

\* s := New(); t := New().Safely(), and the same chain of setters on both.
NextModes ==
  \/ /\ Len(slings) = 1
     /\ CallSafely(1)
     /\ Len(slings') = 2
  \/ \E c \in Clients :
       /\ PairCall("Client", <<c>>, Client(Store, 1, c),
                   Client(Client(Store, 1, c).st, 2, c))
       /\ Within(2, MaxModesLen, MaxUrlLen)'
  \/ /\ PairCall("Post", << <<"foo">> >>, setMethod(Store, 1, POST, <<"foo">>),
                 setMethod(setMethod(Store, 1, POST, <<"foo">>).st, 2, POST,
                           <<"foo">>))
     /\ Within(2, MaxModesLen, MaxUrlLen)'
  \/ /\ PairCall("Base", <<BaseURL>>, Base(Store, 1, BaseURL),
                 Base(Base(Store, 1, BaseURL).st, 2, BaseURL))
     /\ Within(2, MaxModesLen, MaxUrlLen)'
  \/ /\ PairCall("Path", << <<"bar">> >>, Path(Store, 1, <<"bar">>),
                 Path(Path(Store, 1, <<"bar">>).st, 2, <<"bar">>))
     /\ Within(2, MaxModesLen, MaxUrlLen)'
  \/ \E k \in HeaderKeys, v \in HeaderValues :
       /\ PairCall("Add", <<k, v>>, Add(Store, 1, k, v),
                   Add(Add(Store, 1, k, v).st, 2, k, v))
       /\ Within(2, MaxModesLen, MaxUrlLen)'
  \/ \E k \in HeaderKeys, v \in HeaderValues :
       /\ PairCall("Set", <<k, v>>, Set(Store, 1, k, v),
                   Set(Set(Store, 1, k, v).st, 2, k, v))
       /\ Within(2, MaxModesLen, MaxUrlLen)'
  \/ /\ PairCall("QueryStruct", <<"paramsA">>,
                 QueryStruct(Store, 1, "paramsA"),
                 QueryStruct(QueryStruct(Store, 1, "paramsA").st, 2, "paramsA"))
     /\ Within(2, MaxModesLen, MaxUrlLen)'
  \/ \E b \in BuildBodies :
       /\ PairCall("JsonBody", <<b>>, JsonBody(Store, 1, b),
                   JsonBody(JsonBody(Store, 1, b).st, 2, b))
       /\ Within(2, MaxModesLen, MaxUrlLen)'
  \/ /\ PairCall("BodyStruct", <<"paramsA">>, BodyStruct(Store, 1, "paramsA"),
                 BodyStruct(BodyStruct(Store, 1, "paramsA").st, 2, "paramsA"))
     /\ Within(2, MaxModesLen, MaxUrlLen)'

SpecModes == Init /\ [][NextModes]_vars

\* Building and sending, again and again, from builders with a URL, a query
\* struct and a body, in place and in safe mode.
NextPure ==
  \/ \E i \in Slings :
       CallSafely(i) /\ Within(MaxBuildSlings, MaxCopyLen, MaxUrlLen)'
  \/ \E i \in Slings :
       CallBase(i, BaseURL) /\ Within(MaxBuildSlings, MaxCopyLen, MaxUrlLen)'
  \/ \E i \in Slings :
       CallQueryStruct(i, "paramsA")
         /\ Within(MaxBuildSlings, MaxCopyLen, MaxUrlLen)'
  \/ \E i \in Slings :
       CallJsonBody(i, "modelNote")
         /\ Within(MaxBuildSlings, MaxCopyLen, MaxUrlLen)'
  \/ \E i \in Slings :
       CallBodyStruct(i, "paramsA")
         /\ Within(MaxBuildSlings, MaxCopyLen, MaxUrlLen)'
  \/ \E i \in Slings : CallRequest(i)
  \/ \E i \in Slings, o \in Outcomes :
       CallDo(i, Request(Store, i), "model", o)
  \/ \E i \in Slings, o \in Outcomes : CallReceive(i, "model", o)

SpecPure == Init /\ [][NextPure]_vars

MaxSnapSteps == 3

\* req.Header = s.Header: the request takes the map of the sling.
headerMapOf_sling(i) == i

\* The request's header map: http.NewRequest makes one for the request and
\* addHeaders fills it, so it is the map of no sling (0).
headerMapOf(i) == 0

\* req, _ := s.Request(): the caller keeps the request sling i builds. No
\* instance is dropped, so that a sling keeps its index.
KeepRequest(i) ==
  LET r == safely(Store, i)
      rq == Request(Store, i)
  IN /\ snap.steps < MaxSnapSteps
     /\ ~rq.err
     /\ snap' = [req |-> rq, map |-> headerMapOf(r.ret),
                 steps |-> snap.steps + 1]
     /\ slings' = r.st.slings
     /\ heap' = r.st.heap
     /\ last' = [op |-> "Request", arg |-> <<>>, recv |-> i, ret |-> i]
     /\ req' = rq
     /\ done' = NoDo
     /\ threads' = threads

\* A setter or New called on sling i while the request is kept; r is what
\* the method's operator gives.
KeepCall(i, op, arg, r) ==
  /\ snap.steps < MaxSnapSteps
  /\ snap' = [snap EXCEPT !.steps = @ + 1]
  /\ slings' = r.st.slings
  /\ heap' = r.st.heap
  /\ last' = [op |-> op, arg |-> arg, recv |-> i, ret |-> r.ret]
  /\ req' = NoRequest
  /\ done' = NoDo
  /\ threads' = threads

\* Builders, in place and in safe mode, their children, and a request kept
\* while they are configured further.
NextSnapshot ==
  \/ \E i \in Slings : KeepCall(i, "New", <<>>, New(Store, i))
  \/ \E i \in Slings : KeepCall(i, "Safely", <<>>, Safely(Store, i))
  \/ \E i \in Slings, k \in HeaderKeys, v \in HeaderValues :
       KeepCall(i, "Add", <<k, v>>, Add(Store, i, k, v))
  \/ \E i \in Slings, k \in HeaderKeys, v \in HeaderValues :
       KeepCall(i, "Set", <<k, v>>, Set(Store, i, k, v))
  \/ \E i \in Slings :
       KeepCall(i, "Post", << <<"foo">> >>, setMethod(Store, i, POST, <<"foo">>))
  \/ \E i \in Slings :
       KeepCall(i, "Path", << <<"foo">> >>, Path(Store, i, <<"foo">>))
  \/ \E i \in Slings : KeepCall(i, "Base", <<BaseURL>>, Base(Store, i, BaseURL))
  \/ \E i \in Slings :
       KeepCall(i, "QueryStruct", <<"paramsA">>,
                QueryStruct(Store, i, "paramsA"))
  \/ \E i \in Slings, b \in Forms :
       KeepCall(i, "JsonBody", <<b>>, JsonBody(Store, i, b))
  \/ \E i \in Slings, b \in Forms :
       KeepCall(i, "BodyStruct", <<b>>, BodyStruct(Store, i, b))
  \/ \E i \in Slings : KeepRequest(i)

SpecSnapshot == Init /\ [][NextSnapshot]_vars

\* Header names given to Add and Set beside a body: Content-Type in lower
\* case, and another name.
SentKeys == { <<"c", "o", "n", "t", "e", "n", "t", "-", "t", "y", "p", "e">>,
              <<"x", "-", "k">> }

\* Bodies and header calls in any order, in place and in safe mode.
NextSent ==
  \/ \E i \in Slings :
       CallSafely(i) /\ Within(MaxBuildSlings, MaxCaseLen, 0)'
  \/ \E i \in Slings :
       CallJsonBody(i, "modelNote") /\ Within(MaxBuildSlings, MaxCaseLen, 0)'
  \/ \E i \in Slings :
       CallBodyStruct(i, "paramsA") /\ Within(MaxBuildSlings, MaxCaseLen, 0)'
  \/ \E i \in Slings, k \in SentKeys :
       CallAdd(i, k, "text/plain") /\ Within(MaxBuildSlings, MaxCaseLen, 0)'
  \/ \E i \in Slings, k \in SentKeys :
       CallSet(i, k, "text/plain") /\ Within(MaxBuildSlings, MaxCaseLen, 0)'
  \/ \E i \in Slings : CallRequest(i)

SpecSent == Init /\ [][NextSent]_vars

----------------------------------------------------------------------------
(* What a caller reads from an instance.                                   *)

\* The header of sling j in store (ss, hp): name -> list of values.
HeaderOf(ss, hp, j) ==
  [k \in DOMAIN ss[j].Header |->
     Elems([slings |-> ss, heap |-> hp], ss[j].Header[k])]

\* The query structs of sling j in store (ss, hp), as a list.
QueryStructsOf(ss, hp, j) ==
  Elems([slings |-> ss, heap |-> hp], ss[j].queryStructs)

----------------------------------------------------------------------------
(* Claims.                                                                 *)

\* C1: header isolation under derivation. An Add or Set call changes the
\* header (name -> value list) read from no instance other than the one it
\* returns: with B and its child C = B.New() held, header calls on C leave
\* B's header as it was and header calls on B leave C's as it was.
C1_HeaderIsolation ==
  [][last'.op \in {"Add", "Set"} =>
       \A j \in 1..Len(slings) :
         j # last'.ret => HeaderOf(slings', heap', j) = HeaderOf(slings, heap, j)
    ]_vars

\* C2: query-struct list isolation under derivation. The list of a child is
\* a new sequence with the parent's elements in the parent's order, no two
\* instances share the array behind their lists, and appending to the list
\* of one instance, or overwriting an element of it, changes the list read
\* from no other instance.
C2_QueryStructIsolation ==
  /\ [](last.op = "New" /\ last.recv # 0 /\ last.ret # 0 =>
          QueryStructsOf(slings, heap, last.ret)
            = QueryStructsOf(slings, heap, last.recv))
  /\ [](\A i, j \in 1..Len(slings) :
          i # j /\ slings[i].queryStructs.arr # 0 =>
            slings[i].queryStructs.arr # slings[j].queryStructs.arr)
  /\ [][last'.op \in {"QueryStruct", "overwrite"} =>
          \A j \in 1..Len(slings) :
            j # last'.ret =>
              QueryStructsOf(slings', heap', j) = QueryStructsOf(slings, heap, j)
       ]_vars

\* A child took over a list of its parent, and each has appended to it.
C2_Witness ==
  /\ Len(slings) = 2
  /\ last.op = "QueryStruct"
  /\ QueryStructsOf(slings, heap, 1) = <<"paramsA", "paramsB">>
  /\ QueryStructsOf(slings, heap, 2) = <<"paramsA", "paramsA">>

\* The method, URL and body references of a sling.
RequestFieldsOf(s) == <<s.Method, s.RawUrl, s.jsonBody, s.bodyStruct>>

\* C3: the base stays unmodified by its children. A child B.New() is an
\* instance of its own; no call (a verb setter, Base, Path, JsonBody,
\* BodyStruct, New, Request) changes the method, URL or body references of
\* an instance other than the one it returns, so calls on a child leave B's
\* as they were and later calls on B leave the child's as they were; Get(p)
\* on a builder whose URL is "http://a.io/" sets its method to GET and its
\* URL to "http://a.io/" followed by p, and Request() builds a request with
\* the builder's method (GET when none is set) and URL.
C3_BaseUnmodified ==
  /\ [](last.op = "New" => last.recv # last.ret)
  /\ [][\A j \in 1..Len(slings) :
          j # last'.ret =>
            RequestFieldsOf(slings'[j]) = RequestFieldsOf(slings[j])]_vars
  /\ [][last'.op = "Get" /\ slings[last'.recv].RawUrl = BaseURL =>
          /\ slings'[last'.ret].Method = GET
          /\ slings'[last'.ret].RawUrl = BaseURL \o last'.arg[1]]_vars
  /\ [](last.op = "Request" =>
          /\ ~req.err
          /\ req.URL = slings[last.recv].RawUrl
          /\ req.Method = IF slings[last.recv].Method = "" THEN GET
                          ELSE slings[last.recv].Method)

\* B, changed after its child was derived, is at the base URL, and the
\* child builds a GET request to "http://a.io/foo/".
C3_Witness ==
  /\ Len(slings) = 2
  /\ RequestFieldsOf(slings[1]) = <<POST, BaseURL, "modelNote", Nil>>
  /\ RequestFieldsOf(slings[2]) = <<GET, BaseURL \o <<"foo", "/">>, Nil, Nil>>
  /\ last.op = "Request" /\ last.recv = 2
  /\ req.Method = GET /\ req.URL = BaseURL \o <<"foo", "/">>

\* C4: derivation copies the configuration. Right after C = B.New(), with
\* both held, C is an instance other than B with B's client reference,
\* method, URL, body references, header contents, query-struct elements and
\* safe-mode flag; and no call turns safe mode off: an instance a call does
\* not return keeps its flag, and the instance a call on a safe-mode
\* receiver returns is in safe mode.
C4_NewCopies ==
  /\ [](last.op = "New" /\ last.recv # 0 /\ last.ret # 0 =>
          /\ last.ret # last.recv
          /\ slings[last.ret].HttpClient = slings[last.recv].HttpClient
          /\ RequestFieldsOf(slings[last.ret])
               = RequestFieldsOf(slings[last.recv])
          /\ HeaderOf(slings, heap, last.ret)
               = HeaderOf(slings, heap, last.recv)
          /\ QueryStructsOf(slings, heap, last.ret)
               = QueryStructsOf(slings, heap, last.recv)
          /\ slings[last.ret].safeMode = slings[last.recv].safeMode)
  /\ [][/\ \A j \in 1..Len(slings) :
             j # last'.ret /\ slings[j].safeMode => slings'[j].safeMode
        /\ LET i == IF last'.recv = 0 THEN last'.ret ELSE last'.recv
           IN slings[i].safeMode /\ last'.ret # 0
                => slings'[last'.ret].safeMode]_vars

\* A safe-mode builder with every field set, and the copy New made of it.
C4_Witness ==
  /\ last.op = "New" /\ last.recv = 1 /\ last.ret = 2
  /\ slings[1].safeMode
  /\ slings[1].HttpClient = "client"
  /\ RequestFieldsOf(slings[1]) = <<POST, BaseURL, "modelNote", "paramsA">>
  /\ HeaderGet(Store, 1, <<"x", "-", "k">>) = "a"
  /\ QueryStructsOf(slings, heap, 1) = <<"paramsA">>

\* All a caller reads from sling j in store (ss, hp).
StateOf(ss, hp, j) ==
  <<ss[j].HttpClient, RequestFieldsOf(ss[j]), HeaderOf(ss, hp, j),
    QueryStructsOf(ss, hp, j)>>

\* The setters.
Setters == {"Client", "Head", "Get", "Post", "Put", "Patch", "Delete", "Add",
            "Set", "Base", "Path", "QueryStruct", "JsonBody", "BodyStruct"}

\* C5: safe mode makes instances effectively immutable. A setter called on
\* a safe-mode builder S returns an instance other than S, and changes what
\* is read from no instance but the one it returns: S is as it was, and so
\* is every instance an earlier setter call returned.
C5_SafeImmutable ==
  [][LET i == IF last'.recv = 0 THEN last'.ret ELSE last'.recv
     IN last'.op \in Setters /\ slings[i].safeMode =>
          /\ last'.recv # last'.ret
          /\ \A j \in 1..Len(slings) :
               j # last'.ret =>
                 StateOf(slings', heap', j) = StateOf(slings, heap, j)]_vars

\* The Content-Type of sling j in store (ss, hp), and of a request.
ContentTypeOf(ss, hp, j) ==
  HeaderGet([slings |-> ss, heap |-> hp], j, contentType)
ContentTypesOf(rq) ==
  IF CanonicalHeaderKey(contentType) \in DOMAIN rq.Header
  THEN rq.Header[CanonicalHeaderKey(contentType)] ELSE <<>>

\* C6: setting a body sets the content type and the body of built
\* requests, in place and in safe mode. The builder JsonBody(p) returns for
\* a non-nil p has Content-Type application/json, and the request it then
\* builds carries the JSON encoding of p; the builder BodyStruct(p) returns
\* has Content-Type application/x-www-form-urlencoded, and the request it
\* then builds carries the url-encoded form of p.
C6_BodySetsContentType ==
  /\ [][last'.op = "JsonBody" /\ last'.arg[1] # Nil /\ last'.ret # 0 =>
          ContentTypeOf(slings', heap', last'.ret) = jsonContentType]_vars
  /\ [][last'.op = "BodyStruct" /\ last'.arg[1] # Nil /\ last'.ret # 0 =>
          ContentTypeOf(slings', heap', last'.ret) = formContentType]_vars
  /\ [][/\ last.op = "JsonBody" /\ last.arg[1] # Nil /\ last.ret # 0
        /\ last'.op = "Request" /\ last'.recv = last.ret
        => /\ ~req'.err
           /\ req'.Body = encodeJSONBody(last.arg[1]).body]_vars
  /\ [][/\ last.op = "BodyStruct" /\ last.arg[1] # Nil /\ last.ret # 0
        /\ last'.op = "Request" /\ last'.recv = last.ret
        => /\ ~req'.err
           /\ req'.Body = encodeBodyStruct(last.arg[1]).body]_vars

\* C7: at most one body is active and the last non-nil one wins. Whatever
\* JsonBody and BodyStruct calls came before, the request of the builder a
\* call with a non-nil payload returns carries that payload in that call's
\* encoding, under that call's media type alone, and the request of the
\* builder a call with a nil payload returns is the request of the receiver.
C7_LastBodyWins ==
  [][last'.op \in {"JsonBody", "BodyStruct"} /\ last'.ret # 0 =>
       LET i == IF last'.recv = 0 THEN last'.ret ELSE last'.recv
           p == last'.arg[1]
           before == Request(Store, i)
           after == Request([slings |-> slings', heap |-> heap'], last'.ret)
       IN IF p = Nil THEN after = before
          ELSE /\ ~after.err
               /\ last'.op = "JsonBody" =>
                    /\ after.Body = encodeJSONBody(p).body
                    /\ ContentTypesOf(after) = <<jsonContentType>>
               /\ last'.op = "BodyStruct" =>
                    /\ after.Body = encodeBodyStruct(p).body
                    /\ ContentTypesOf(after) = <<formContentType>>]_vars

\* C8: a nil body is a no-op. JsonBody(nil) and BodyStruct(nil) change what
\* is read from no instance, and the builder they return reads as the
\* receiver did: same body payloads, same Content-Type, same other fields;
\* and on a builder with no body set, the request built after JsonBody(nil)
\* has no body.
C8_NilBodyNoOp ==
  /\ [][last'.op \in {"JsonBody", "BodyStruct"} /\ last'.arg[1] = Nil =>
          LET i == IF last'.recv = 0 THEN last'.ret ELSE last'.recv
          IN /\ \A j \in 1..Len(slings) :
                  j # last'.ret =>
                    StateOf(slings', heap', j) = StateOf(slings, heap, j)
             /\ last'.ret # 0 =>
                  /\ StateOf(slings', heap', last'.ret)
                       = StateOf(slings, heap, i)
                  /\ slings'[last'.ret].safeMode = slings[i].safeMode]_vars
  /\ [][/\ last.op = "JsonBody" /\ last.arg[1] = Nil /\ last.ret # 0
        /\ slings[last.ret].jsonBody = Nil
        /\ slings[last.ret].bodyStruct = Nil
        /\ last'.op = "Request" /\ last'.recv = last.ret
        => ~req'.err /\ req'.Body = NilReader]_vars

\* JsonBody(nil) was called on a builder with a JSON body set.
C8_Witness ==
  /\ last.op = "JsonBody" /\ last.arg = <<Nil>> /\ last.ret # 0
  /\ slings[last.ret].jsonBody = "modelNote"
  /\ ContentTypeOf(slings, heap, last.ret) = jsonContentType

\* The forms the URLs and paths of the examples take: plain path lexemes; a
\* URL "http://host" followed by nothing or by a rooted path; a relative
\* path; a rooted path.
PlainPath(p) ==
  /\ \A k \in 1..Len(p) : p[k] \in {"/", "foo", "bar", "baz"}
  /\ \A k \in 1..(Len(p) - 1) : (p[k] = "/") # (p[k + 1] = "/")
PlainURL(u) ==
  /\ Len(u) >= 5
  /\ Upto(u, 4) = <<"http", ":", "/", "/">>
  /\ u[5] \in {"a.io", "b.io"}
  /\ Len(u) >= 6 => u[6] = "/"
  /\ PlainPath(From(u, 5))
RelativePath(p) == p # <<>> /\ p[1] # "/" /\ PlainPath(p)
RootedPath(p) == p # <<>> /\ p[1] = "/" /\ PlainPath(p)

\* C9, as amended: Path follows URI reference resolution against the
\* accumulated URL, not string concatenation. For operands that parse,
\* Path(p) sets the URL to resolve(URL, p), call after call. On a URL of
\* the form "http://host" or "http://host/rooted/path", a relative p is
\* appended when the URL ends in a slash, appended after a slash when the
\* URL has no path ("http://a.io" + "foo" -> "http://a.io/foo"), and
\* otherwise replaces the last path segment; a p starting with "/" replaces
\* the whole path; a p that is an absolute URL replaces the URL entirely;
\* an empty p leaves a URL of that form, and the empty URL, as it is.
C9_PathResolves ==
  [][last'.op = "Path" /\ last'.ret # 0 =>
       LET i == IF last'.recv = 0 THEN last'.ret ELSE last'.recv
           u == slings[i].RawUrl
           p == last'.arg[1]
           v == slings'[last'.ret].RawUrl
       IN /\ ~Parse(u).err /\ ~Parse(p).err =>
               v = String(ResolveReference(Parse(u).url, Parse(p).url))
          /\ PlainURL(u) /\ RelativePath(p) =>
               v = IF u[Len(u)] = "/" THEN u \o p
                   ELSE IF Len(u) = 5 THEN u \o <<"/">> \o p
                   ELSE Upto(u, LastIndex(u, "/")) \o p
          /\ PlainURL(u) /\ RootedPath(p) => v = Upto(u, 5) \o p
          /\ ~Parse(u).err /\ PlainURL(p) => v = p
          /\ (PlainURL(u) \/ u = <<>>) /\ p = <<>> => v = u]_vars

\* "http://a.io/" was extended by "foo/" and then by "bar".
C9_Witness ==
  /\ last.op = "Path" /\ last.arg = << <<"bar">> >> /\ last.ret # 0
  /\ slings[last.ret].RawUrl = BaseURL \o <<"foo", "/", "bar">>

\* C9, as stated: for every accumulated URL that parses, a relative p
\* appends only when the URL ends in a slash and otherwise replaces the last
\* segment, and an empty p leaves the URL as it is.
C9_PathResolves_Stated ==
  [][last'.op = "Path" /\ last'.ret # 0 =>
       LET i == IF last'.recv = 0 THEN last'.ret ELSE last'.recv
           u == slings[i].RawUrl
           p == last'.arg[1]
           v == slings'[last'.ret].RawUrl
       IN /\ u # <<>> /\ ~Parse(u).err /\ RelativePath(p) =>
               v = IF u[Len(u)] = "/" THEN u \o p
                   ELSE Upto(u, LastIndex(u, "/")) \o p
          /\ PlainURL(u) /\ RootedPath(p) => v = Upto(u, 5) \o p
          /\ ~Parse(u).err /\ PlainURL(p) => v = p
          /\ ~Parse(u).err /\ p = <<>> => v = u]_vars

\* C10: Path is a silent no-op on parse failure. When the accumulated URL
\* or the path does not parse, Path changes what is read from no instance,
\* and the builder it returns reads as the receiver did: same URL, same
\* other fields, same mode.
C10_PathParseFailure ==
  [][/\ last'.op = "Path"
     /\ LET i == IF last'.recv = 0 THEN last'.ret ELSE last'.recv
        IN Parse(slings[i].RawUrl).err \/ Parse(last'.arg[1]).err
     => LET i == IF last'.recv = 0 THEN last'.ret ELSE last'.recv
        IN /\ \A j \in 1..Len(slings) :
                j # last'.ret =>
                  StateOf(slings', heap', j) = StateOf(slings, heap, j)
           /\ last'.ret # 0 =>
                /\ StateOf(slings', heap', last'.ret)
                     = StateOf(slings, heap, i)
                /\ slings'[last'.ret].safeMode = slings[i].safeMode]_vars

\* Path was called with a path that does not parse, on a builder at
\* "http://a.io/".
C10_Witness ==
  /\ last.op = "Path" /\ last.ret # 0
  /\ Parse(last.arg[1]).err
  /\ slings[last.ret].RawUrl = BaseURL

\* The verb a verb setter stands for.
VerbOf(op) ==
  CASE op = "Head" -> HEAD [] op = "Get" -> GET [] op = "Post" -> POST
    [] op = "Put" -> PUT [] op = "Patch" -> PATCH [] op = "Delete" -> DELETE

VerbSetters == {"Head", "Get", "Post", "Put", "Patch", "Delete"}

\* C11: a verb setter called with path p on a builder with URL u returns a
\* builder whose method is the verb of that call and whose URL is the
\* reference resolution of p against u; when u or p does not parse the URL
\* stays u and the method is the verb all the same. So after a chain of verb
\* setters the method is the last call's verb and the URL the successive
\* resolution of the paths in call order.
C11_VerbSetters ==
  [][last'.op \in VerbSetters /\ last'.ret # 0 =>
       LET i == IF last'.recv = 0 THEN last'.ret ELSE last'.recv
           u == slings[i].RawUrl
           p == last'.arg[1]
           t == slings'[last'.ret]
       IN /\ t.Method = VerbOf(last'.op)
          /\ t.RawUrl = IF ~Parse(u).err /\ ~Parse(p).err
                        THEN String(ResolveReference(Parse(u).url,
                                                     Parse(p).url))
                        ELSE u]_vars

\* Post("http://a.io/").Put("foo/").Delete("bar") gave DELETE
\* http://a.io/foo/bar.
C11_Witness ==
  /\ last.op = "Delete" /\ last.arg = << <<"bar">> >> /\ last.ret # 0
  /\ slings[last.ret].Method = DELETE
  /\ slings[last.ret].RawUrl =
       <<"http", ":", "/", "/", "a.io", "/", "foo", "/", "bar">>

\* The query of URL string u: what follows the first "?".
QueryOf(u) == IF Contains(u, "?") THEN From(u, Index(u, "?")) ELSE <<>>

\* The (key, value) pairs of a query string "k=v&...", in order.
PairsOf(q) ==
  LET parts == SelectSeq(SplitOn(q, "&"), LAMBDA x : x # <<>>)
  IN [k \in 1..Len(parts) |->
        LET eq == Index(parts[k], "=")
        IN IF eq = 0 THEN <<parts[k], <<>>>>
           ELSE <<Upto(parts[k], eq - 1), From(parts[k], eq)>>]

\* The (key, value) pairs of the url-tagged struct p, in declaration order.
StructPairs(p) ==
  [k \in 1..Len(StructOf(p)) |->
     << <<IF StructOf(p)[k].url # "" THEN StructOf(p)[k].url
          ELSE StructOf(p)[k].name>>, <<StructOf(p)[k].value>> >>]

RECURSIVE ListPairs(_)
\* The pairs of the structs of list qs, struct after struct.
ListPairs(qs) ==
  IF qs = <<>> THEN <<>> ELSE StructPairs(Head(qs)) \o ListPairs(Tail(qs))

\* The multiset of the elements of sequence s.
BagOf(s) ==
  [x \in {s[k] : k \in DOMAIN s} |-> Cardinality({k \in DOMAIN s : s[k] = x})]

\* The pairs a request built from builder j is to carry: those of its URL,
\* then those of its query structs.
PairsIn(j) ==
  PairsOf(QueryOf(slings[j].RawUrl))
  \o ListPairs(QueryStructsOf(slings, heap, j))

\* C12: the multiset of (key, value) pairs in a built request's query string
\* is that of the pairs on the builder's URL plus the pairs of every query
\* struct in its list: none is overwritten or dropped, a repeated pair is
\* repeated.
C12_QueryAdditive ==
  last.op = "Request" /\ ~req.err =>
    BagOf(PairsOf(QueryOf(req.URL))) = BagOf(PairsIn(last.recv))

\* "http://a.io?limit=7" with {limit:30} added twice was built into a
\* request with three limit pairs.
C12_Witness ==
  /\ last.op = "Request" /\ ~req.err
  /\ slings[last.recv].RawUrl =
       <<"http", ":", "/", "/", "a.io", "?", "limit", "=", "7">>
  /\ QueryStructsOf(slings, heap, last.recv) = <<"paramsA", "paramsA">>
  /\ Len(PairsOf(QueryOf(req.URL))) = 3

\* The values of key in the pair sequence ps, in order.
ValuesOf(ps, key) ==
  LET sel == SelectSeq(ps, LAMBDA x : x[1] = key)
  IN [k \in 1..Len(sel) |-> sel[k][2]]

\* C13: in a built request's query string the keys are in lexicographic
\* order, whatever the order the query structs were added in, and the values
\* of a key are in the order: those on the URL, then those of each query
\* struct in the order the structs were added.
C13_QuerySorted ==
  last.op = "Request" /\ ~req.err =>
    LET out == PairsOf(QueryOf(req.URL))
    IN /\ \A a, b \in 1..Len(out) :
            a < b => Index(SortedKeys, out[a][1]) <= Index(SortedKeys, out[b][1])
       /\ \A a \in 1..Len(out) : Index(SortedKeys, out[a][1]) # 0
       /\ \A k \in 1..Len(SortedKeys) :
            ValuesOf(out, SortedKeys[k]) = ValuesOf(PairsIn(last.recv), SortedKeys[k])

\* {count:25, kind_name:"recent"} then {limit:30} on "http://a.io?limit=7"
\* was built into "http://a.io?count=25&kind_name=recent&limit=7&limit=30".
C13_Witness ==
  /\ last.op = "Request" /\ ~req.err
  /\ QueryStructsOf(slings, heap, last.recv) = <<"paramsB", "paramsA">>
  /\ req.URL = <<"http", ":", "/", "/", "a.io", "?", "count", "=", "25", "&",
                 "kind_name", "=", "recent", "&", "limit", "=", "7", "&",
                 "limit", "=", "30">>

\* C14: QueryStruct(nil) returns a builder with the receiver's list;
\* QueryStruct(q), q not nil, one with the receiver's list followed by q. New,
\* Safely and Base return a builder with the receiver's list, and no call
\* changes the list of the receiver it was made on, but to append to it.
C14_QueryStructAppends ==
  [][last'.op \in {"QueryStruct", "New", "Safely", "Base", "Request"} =>
       LET i == IF last'.recv = 0 THEN last'.ret ELSE last'.recv
           old == QueryStructsOf(slings, heap, i)
           q == last'.arg[1]
           new == IF last'.op = "QueryStruct" /\ q # Nil THEN Append(old, q)
                  ELSE old
       IN /\ last'.ret # 0 => QueryStructsOf(slings', heap', last'.ret) = new
          /\ last'.recv # 0 /\ last'.recv # last'.ret =>
               QueryStructsOf(slings', heap', last'.recv) = old]_vars

\* The same value was added twice, and is in the list twice.
C14_Witness ==
  /\ last.op = "QueryStruct" /\ last.arg = <<"paramsA">> /\ last.ret # 0
  /\ QueryStructsOf(slings, heap, last.ret) = <<"paramsA", "paramsA">>

\* C15: a builder whose JSON body payload holds a float that is not finite
\* builds no request: Request() returns a nil request and an error.
C15_NonFiniteFails ==
  last.op = "Request" /\ slings[last.recv].jsonBody = "modelInf" =>
    req = NoRequest

\* C16: when the builder's URL does not parse, the URL's query does not
\* parse, a query struct in its list cannot be flattened or its body cannot
\* be encoded, Request() returns a nil request and an error; and whenever
\* Request() fails, all that is read from the builder is as before the call.
C16_RequestAllOrNothing ==
  [][last'.op = "Request" =>
       LET j == last'.recv
           s == slings[j]
           fails == \/ Parse(s.RawUrl).err
                    \/ Contains(QueryOf(s.RawUrl), BadEscape)
                    \/ Contains(QueryStructsOf(slings, heap, j), NotStruct)
                    \/ s.jsonBody = "modelInf"
       IN /\ fails => req' = NoRequest
          /\ req'.err => StateOf(slings', heap', j) = StateOf(slings, heap, j)
     ]_vars

\* The data of a body is a JSON object.
IsJSON(data) == Len(data) >= 2 /\ data[1] = "{" /\ data[Len(data)] = "}"

\* C17: when the transport call of Do returns without error, Do has closed
\* the response body exactly once when it returns, whether the decoder
\* succeeded, failed or was not run; when the transport returns an error, Do
\* makes no call on a response body.
C17_BodyClosedOnce ==
  last.op = "Do" =>
    LET o == last.arg[3]
    IN IF o.err = Nil THEN done.resp.Body.closes = 1
       ELSE done.resp.Body.closes = o.resp.Body.closes

\* The decoder failed on the body of a response, and the body is closed.
C17_Witness ==
  /\ last.op = "Do" /\ last.arg[2] # Nil /\ last.arg[3].err = Nil
  /\ done.decodes = 1 /\ done.err # Nil
  /\ done.resp.Body.closes = 1

\* C18: Do(req, nil) makes one transport call, runs no decoder, closes the
\* body and returns the response with a nil error, whatever its status code
\* and body; and Do returns an error only when the transport call failed or
\* the decoder was run and failed.
C18_NilTarget ==
  last.op = "Do" =>
    LET v == last.arg[2]
        o == last.arg[3]
    IN /\ v = Nil /\ o.err = Nil =>
            /\ Len(done.sent) = 1 /\ done.decodes = 0
            /\ done.err = Nil
            /\ ~done.resp.nil
            /\ done.resp.StatusCode = o.resp.StatusCode
            /\ done.resp.Body.closes = 1
       /\ done.err # Nil =>
            \/ o.err # Nil
            \/ v # Nil /\ done.decodes = 1 /\ ~IsJSON(o.resp.Body.data)

\* A response with status 500 and a body that is not JSON came back to
\* Do(req, nil): no error.
C18_Witness ==
  /\ last.op = "Do" /\ last.arg[2] = Nil
  /\ last.arg[3].err = Nil
  /\ last.arg[3].resp.StatusCode = 500
  /\ last.arg[3].resp.Body.data = <<"{", "\"", "text">>
  /\ done.err = Nil /\ done.resp.StatusCode = 500

\* C19: when the transport call returns an error, Do returns that error and
\* the response the transport returned; it has run no decoder, has not
\* written the target and has made no second transport call.
C19_TransportError ==
  last.op = "Do" /\ last.arg[3].err # Nil =>
    /\ done.err = last.arg[3].err
    /\ done.resp = last.arg[3].resp
    /\ done.decodes = 0
    /\ done.target = <<>>
    /\ Len(done.sent) = 1

\* The client gave up on a redirect, with a target to decode into.
C19_Witness ==
  /\ last.op = "Do" /\ last.arg[2] # Nil
  /\ last.arg[3].err # Nil /\ ~last.arg[3].resp.nil
  /\ done.err = last.arg[3].err /\ ~done.resp.nil

\* C20: when the transport call succeeds and decoding into a target fails,
\* Do returns the decoder's error and the response received, its status as
\* received and its body closed.
C20_DecodeFailure ==
  last.op = "Do" /\ last.arg[2] # Nil /\ last.arg[3].err = Nil
    /\ ~IsJSON(last.arg[3].resp.Body.data)
  => /\ done.err \notin {Nil, "http: read on closed response body"}
     /\ ~done.resp.nil
     /\ done.resp.StatusCode = last.arg[3].resp.StatusCode
     /\ done.resp.Body.data = last.arg[3].resp.Body.data
     /\ done.resp.Body.closes = 1

\* A 404 response with half a JSON object was decoded into a target.
C20_Witness ==
  /\ last.op = "Do" /\ last.arg[2] # Nil /\ last.arg[3].err = Nil
  /\ last.arg[3].resp.StatusCode = 404
  /\ last.arg[3].resp.Body.data = <<"{", "\"", "text">>
  /\ done.err # Nil /\ done.resp.StatusCode = 404

\* C22: Receive(v) on a builder whose Request() fails returns a nil response
\* and an error, makes no transport call and does not write the target; on
\* a builder whose Request() succeeds it makes one transport call, with that
\* request, and returns what Do(request, v) returns.
C22_ReceiveBuildsThenSends ==
  [][last'.op = "Receive" =>
       LET rq == Request(Store, last'.recv)
           v == last'.arg[1]
           o == last'.arg[2]
       IN IF rq.err
          THEN /\ done'.resp.nil /\ done'.err # Nil
               /\ done'.sent = <<>> /\ done'.decodes = 0
               /\ done'.target = <<>>
          ELSE /\ Len(done'.sent) = 1 /\ done'.sent[1].req = rq
               /\ done'.sent[1].client = slings[last'.recv].HttpClient
               /\ done' = Do(Store, last'.recv, rq, v, o)]_vars

\* Receive on a builder with a URL that does not parse, with a target and a
\* transport that would have answered 200 with JSON.
C22_Witness ==
  /\ last.op = "Receive" /\ last.arg[1] # Nil
  /\ last.arg[2].err = Nil /\ IsJSON(last.arg[2].resp.Body.data)
  /\ Parse(slings[last.recv].RawUrl).err
  /\ done.resp.nil /\ done.err # Nil /\ done.sent = <<>>

C23_ClientSetter ==
  /\ slings[1].HttpClient = DefaultClient
  /\ [][last'.op = "Client" /\ last'.ret # 0 =>
          LET i == IF last'.recv = 0 THEN last'.ret ELSE last'.recv
              c == last'.arg[1]
              r == last'.ret
          IN /\ slings'[r].HttpClient = (IF c = Nil THEN DefaultClient ELSE c)
             /\ Tail(StateOf(slings', heap', r)) = Tail(StateOf(slings, heap, i))
             /\ slings'[r].safeMode = slings[i].safeMode
             /\ \A j \in 1..Len(slings) :
                  j # r => StateOf(slings', heap', j) = StateOf(slings, heap, j)
      ]_vars

\* Client(nil) on a builder with a method and a header, while another
\* instance holds a client of its own.
C23_Witness ==
  /\ last.op = "Client" /\ last.arg = <<Nil>> /\ last.ret # 0
  /\ slings[last.ret].HttpClient = DefaultClient
  /\ slings[last.ret].Method = POST
  /\ DOMAIN slings[last.ret].Header # {}
  /\ \E j \in 1..Len(slings) : slings[j].HttpClient = "client"

\* A header name with every letter in lower case.
LowerOf(k) == [n \in 1..Len(k) |-> toLower(k[n])]

\* C24: header setters and their effect on built requests. In the header of
\* the instance Add(k, v) returns, the list under the canonical form of k is
\* the receiver's list followed by v, and in the one Set(k, v) returns it is
\* [v]; the header has no two names that differ only in letter case, and
\* every other entry is the receiver's. The request Request() builds holds,
\* under every name, the builder's list of values in the builder's order.
C24_HeaderSetters ==
  /\ [][last'.op \in {"Add", "Set"} /\ last'.ret # 0 =>
          LET i == IF last'.recv = 0 THEN last'.ret ELSE last'.recv
              k == CanonicalHeaderKey(last'.arg[1])
              v == last'.arg[2]
              old == HeaderOf(slings, heap, i)
              new == HeaderOf(slings', heap', last'.ret)
          IN /\ DOMAIN new = DOMAIN old \cup {k}
             /\ new[k] = IF last'.op = "Set" \/ k \notin DOMAIN old
                           THEN <<v>> ELSE Append(old[k], v)
             /\ \A x \in DOMAIN old : x # k => new[x] = old[x]
             /\ \A x, y \in DOMAIN new : LowerOf(x) = LowerOf(y) => x = y
      ]_vars
  /\ [][last'.op = "Request" /\ ~req'.err =>
          req'.Header = HeaderOf(slings, heap, last'.recv)]_vars

\* A request built from a header with two values, added under two spellings
\* of one name, and an entry under another name.
C24_Witness ==
  /\ last.op = "Request" /\ ~req.err
  /\ DOMAIN req.Header = {contentType, <<"X", "-", "K">>}
  /\ req.Header[<<"X", "-", "K">>] = <<"b", "a">>

\* C25: children are safe to use concurrently. When two goroutines each
\* derive a child from a base nobody mutates and then call setters and
\* Request() on their own child only, no storage location is written by one
\* goroutine and read or written by the other, and the request a goroutine
\* builds is the one its own calls configured: the request its child would
\* have built right after the goroutine's last setter call.
C25_ChildrenConcurrent ==
  /\ [](/\ threads.writes[1] \cap (threads.reads[2] \cup threads.writes[2]) = {}
        /\ threads.writes[2] \cap (threads.reads[1] \cup threads.writes[1]) = {})
  /\ [][last'.op = "Request" /\ threads'.turn # 0 =>
          req' = threads.mine[threads'.turn]]_vars

\* C26: in-place is the default mode. The builder New() makes is not in safe
\* mode, and New and the setters hand the receiver's mode on, so an instance
\* is in safe mode only with Safely() in its ancestry. A setter called on an
\* instance that is not in safe mode returns that instance, and its effect
\* (the method, the header value, the body reference) is read from it by
\* whoever holds it. Safely() leaves the receiver as it was, mode included,
\* and returns another instance, in safe mode, with the receiver's
\* configuration.
C26_InPlaceDefault ==
  /\ ~slings[1].safeMode
  /\ [][LET i == IF last'.recv = 0 THEN last'.ret ELSE last'.recv
        IN /\ last'.op \in Setters \cup {"New"} /\ last'.ret # 0 =>
                slings'[last'.ret].safeMode = slings[i].safeMode
           /\ last'.op \in Setters /\ ~slings[i].safeMode =>
                /\ last'.recv = i /\ last'.ret = i
                /\ last'.op = "Post" => slings'[i].Method = POST
                /\ last'.op = "Set" =>
                     HeaderOf(slings', heap', i)
                       [CanonicalHeaderKey(last'.arg[1])] = <<last'.arg[2]>>
                /\ last'.op = "JsonBody" => slings'[i].jsonBody = last'.arg[1]
           /\ last'.op = "Safely" =>
                /\ last'.recv # last'.ret
                /\ last'.recv # 0 =>
                     /\ StateOf(slings', heap', i) = StateOf(slings, heap, i)
                     /\ slings'[i].safeMode = slings[i].safeMode
                /\ last'.ret # 0 =>
                     /\ slings'[last'.ret].safeMode
                     /\ StateOf(slings', heap', last'.ret)
                          = StateOf(slings, heap, i)
     ]_vars

\* A setter was called on a child that is not in safe mode, while a
\* safe-mode copy is held too.
C26_Witness ==
  /\ Len(slings) = 2 /\ last.op = "JsonBody" /\ last.recv = last.ret
  /\ ~slings[last.ret].safeMode /\ slings[last.ret].jsonBody = "modelNote"
  /\ \E j \in 1..Len(slings) : slings[j].safeMode

\* C27: safe mode and in-place mode build the same request. After the same
\* chain of setter calls on New() and on New().Safely(), the two builders
\* have the same client, method, URL, header, query structs and body
\* references, and Request() gives for both the same request or fails for
\* both.
C27_ModesAgree ==
  Len(slings) = 2 /\ last.op \in Setters =>
    /\ StateOf(slings, heap, 1) = StateOf(slings, heap, 2)
    /\ Request(Store, 1) = Request(Store, 2)

\* C28: building is pure and repeatable. Request(), Do() and Receive() leave
\* the client, method, URL, header, query structs and body references of
\* every instance as they were and add no instance: the URL of the builder
\* does not take the merged query. So a Request() right after a Request()
\* or a Receive() on the same builder gives the request the earlier call
\* built: same method, URL, header and body bytes, in a reader of its own.
C28_BuildingPure ==
  [][last'.op \in {"Request", "Do", "Receive"} =>
       /\ Len(slings') = Len(slings)
       /\ \A j \in 1..Len(slings) :
            StateOf(slings', heap', j) = StateOf(slings, heap, j)
       /\ last'.op = "Request" /\ last.op = "Request"
            /\ last'.recv = last.recv => req' = req
       /\ last'.op = "Request" /\ last.op = "Receive"
            /\ last'.recv = last.recv =>
              IF done.sent = <<>> THEN req'.err ELSE req' = done.sent[1].req
    ]_vars

\* A request with a merged query and a JSON body, from a builder whose URL
\* has no query.
C28_Witness ==
  /\ last.op = "Request" /\ ~req.err
  /\ Contains(req.URL, "?") /\ ~req.Body.nil /\ req.Body.data # <<>>
  /\ QueryStructsOf(slings, heap, last.recv) # <<>>
  /\ ~Contains(slings[last.recv].RawUrl, "?")

\* What the caller reads from the request it keeps.
Kept ==
  [snap.req EXCEPT !.Header = IF snap.map = 0 THEN @
                              ELSE HeaderOf(slings, heap, snap.map)]

\* C29: a built request is a snapshot. Once Request() has returned a
\* request, no setter call and no New, on the builder or on a builder
\* derived from it, changes the method, URL, header value lists or body
\* bytes read from that request.
C29_RequestSnapshot ==
  [][~snap.req.err /\ last'.op \in Setters \cup {"New", "Safely"} =>
       Kept' = Kept]_vars

\* The builder of a kept request with a header got another value under the
\* same name: its header is no longer the request's.
C29_Witness ==
  /\ ~snap.req.err /\ last.op = "Add"
  /\ DOMAIN Kept.Header # {}
  /\ HeaderOf(slings, heap, last.ret) # Kept.Header
  /\ DOMAIN HeaderOf(slings, heap, last.ret) = DOMAIN Kept.Header

\* C30: a set body is always sent. The request Request() builds from a
\* builder on which JsonBody or BodyStruct set a payload carries the
\* encoding of a payload set on it, the payload's when there is one only,
\* whatever header calls were made, on Content-Type too.
C30_BodyAlwaysSent ==
  last.op = "Request" =>
    LET s == slings[last.recv]
        sent == {encodeJSONBody(s.jsonBody).body : x \in {s.jsonBody} \ {Nil}}
                \cup {encodeBodyStruct(s.bodyStruct).body :
                        x \in {s.bodyStruct} \ {Nil}}
    IN sent # {} => ~req.err /\ req.Body \in sent

====
